---- MODULE Spec2Model ----
(***************************************************************************)
(* Model of the story-generation pipeline of storybook-assistant-plugin.   *)
(*                                                                         *)
(* Part 1: skills/story-generation/scripts/detect_variants.py              *)
(*   VariantDetector.detect_variants and its four detection passes.        *)
(*                                                                         *)
(* Python strings are sequences of one-character strings, so that lower(), *)
(* capitalize(), strip(), split(), the `in` substring test and the regular *)
(* expression of _parse_union_type are computed character by character.    *)
(***************************************************************************)
EXTENDS Integers, Sequences, FiniteSets, TLC

VARIABLES
    component_metadata,  \* the dict handed to the detector: props, component_type
    called,              \* which VariantDetector method has run ("none" before)
    result,              \* the list that method returned
    component_path,      \* the path handed to parse_component
    component_file,      \* that file on disk: whether open() succeeds, its text
    opened,              \* whether open() has been called on the file
    parsed,              \* what parse_component returned
    pc,                  \* where generate_story stands ("idle": not called)
    testing_level,       \* its testing_level argument
    output_path,         \* its output_path argument, None or a path
    templates,           \* the names of the files in TEMPLATE_DIR
    output_file,         \* the text of the file at output_path, None: no file
    story_content,       \* the value of _generate_story_content
    returned,            \* the value generate_story returned
    printed,             \* the messages printed so far
    given_variants,      \* the variants argument of _generate_variant_stories
    history,             \* what each finished run of generate_story left
    project,             \* the scanned directory: whether it exists, its files
    component_files,     \* the candidate files ComponentScanner.scan collected
    components,          \* the inventory it has built so far
    scan_pc,             \* where scan stands ("idle": not called)
    scan_i,              \* the position of its loop in component_files
    workers              \* the parse_component calls in progress, per worker

\* The state of the detector calls and the state of the parser calls
detector == <<component_metadata, called, result>>
files == <<component_path, component_file, opened, parsed>>

story == <<pc, testing_level, output_path, templates, output_file,
           story_content, returned, printed, given_variants, history>>

bulk == <<project, component_files, components, scan_pc, scan_i, workers>>

vars == <<detector, files, story, bulk>>

---------------------------------------------------------------------------
(* Strings *)

\* A string literal as the sequence of its characters.
S(str) == [i \in 1..Len(str) |-> SubSeq(str, i, i)]

LowerAlpha == S("abcdefghijklmnopqrstuvwxyz")
UpperAlpha == S("ABCDEFGHIJKLMNOPQRSTUVWXYZ")
Whitespace == {" ", "\t", "\n", "\r"}

\* The case mappings of the ASCII letters; other characters are unchanged.
ToLower == [c \in {UpperAlpha[i] : i \in 1..26} |->
               LowerAlpha[CHOOSE i \in 1..26 : UpperAlpha[i] = c]]
ToUpper == [c \in {LowerAlpha[i] : i \in 1..26} |->
               UpperAlpha[CHOOSE i \in 1..26 : LowerAlpha[i] = c]]

char_lower(c) == IF c \in DOMAIN ToLower THEN ToLower[c] ELSE c

char_upper(c) == IF c \in DOMAIN ToUpper THEN ToUpper[c] ELSE c

\* str.lower()
str_lower(s) == [i \in 1..Len(s) |-> char_lower(s[i])]

\* str.capitalize(): first character upper-cased, the rest lower-cased
str_capitalize(s) ==
    [i \in 1..Len(s) |-> IF i = 1 THEN char_upper(s[i]) ELSE char_lower(s[i])]

\* `sub in s` on strings
str_contains(sub, s) ==
    \E i \in 0..(Len(s) - Len(sub)) : SubSeq(s, i + 1, i + Len(sub)) = sub

\* str.strip()
str_strip(s) ==
    LET keep == {i \in 1..Len(s) : s[i] \notin Whitespace}
    IN  IF keep = {} THEN <<>>
        ELSE LET lo == CHOOSE i \in keep : \A j \in keep : i <= j
                 hi == CHOOSE i \in keep : \A j \in keep : j <= i
             IN  SubSeq(s, lo, hi)

\* str.split(sep) for a one-character separator: the pieces between the
\* separators, empty pieces included.
RECURSIVE str_split(_, _)
str_split(s, sep) ==
    LET at == {i \in 1..Len(s) : s[i] = sep}
    IN  IF at = {} THEN <<s>>
        ELSE LET p == CHOOSE i \in at : \A j \in at : i <= j
             IN  <<SubSeq(s, 1, p - 1)>> \o str_split(SubSeq(s, p + 1, Len(s)), sep)

\* `x in list`
InList(x, list) == \E i \in 1..Len(list) : list[i] = x

---------------------------------------------------------------------------
(* detect_variants.py: data *)

\* Python values stored in Variant.args: a str or the bool True.
PyStr(s) == <<"str", s>>
PyTrue == <<"bool", TRUE>>

\* A dict as a function on its keys.
EmptyDict == [k \in {} |-> PyTrue]
Dict1(k, v) == [x \in {k} |-> v]

\* @dataclass Variant
Variant(name, description, args, priority) ==
    [name |-> name, description |-> description, args |-> args,
     priority |-> priority]

\* VariantDetector.VARIANT_PATTERNS: a dict from prop name to its list
VARIANT_PATTERNS ==
    [key \in {S("variant"), S("color"), S("size"), S("type"),
              S("appearance"), S("intent")} |->
        CASE key = S("variant") ->
                <<S("primary"), S("secondary"), S("outline"), S("ghost"),
                  S("link"), S("danger"), S("success"), S("warning")>>
          [] key = S("color") ->
                <<S("primary"), S("secondary"), S("success"), S("warning"),
                  S("danger"), S("info")>>
          [] key = S("size") ->
                <<S("small"), S("medium"), S("large"), S("xs"), S("sm"),
                  S("md"), S("lg"), S("xl")>>
          [] key = S("type") ->
                <<S("button"), S("submit"), S("reset"), S("text"), S("email"),
                  S("password"), S("number")>>
          [] key = S("appearance") ->
                <<S("filled"), S("outline"), S("ghost"), S("link")>>
          [] key = S("intent") ->
                <<S("primary"), S("success"), S("warning"), S("danger")>>]

\* VariantDetector.STATE_PROPS
STATE_PROPS ==
    <<S("disabled"), S("loading"), S("active"), S("selected"), S("checked"),
      S("error"), S("readonly")>>

---------------------------------------------------------------------------
(* detect_variants.py: _parse_union_type *)

QuoteChars == {"\"", "'"}

\* re.findall(r'["\']([^"\']+)["\']', s): the leftmost match starts at the
\* first quote character that is followed by at least one non-quote
\* character and then by a quote character; the group is the text between
\* the two, and the search goes on after the closing quote.
RECURSIVE re_findall_quoted(_)
re_findall_quoted(s) ==
    LET n == Len(s)
        starts == {p \in 1..n :
                     /\ s[p] \in QuoteChars
                     /\ p + 1 <= n
                     /\ s[p + 1] \notin QuoteChars
                     /\ \E q \in (p + 2)..n : s[q] \in QuoteChars}
    IN  IF starts = {} THEN <<>>
        ELSE LET p == CHOOSE i \in starts : \A j \in starts : i <= j
                 ends == {q \in (p + 2)..n : s[q] \in QuoteChars}
                 q == CHOOSE i \in ends : \A j \in ends : i <= j
             IN  <<SubSeq(s, p + 1, q - 1)>>
                     \o re_findall_quoted(SubSeq(s, q + 1, n))

parse_union_type(type_str) ==
    LET matches == re_findall_quoted(type_str)
    IN  IF matches # <<>> THEN matches
        ELSE IF str_contains(S("|"), type_str)
             THEN LET parts == str_split(type_str, "|")
                      stripped == [i \in 1..Len(parts) |-> str_strip(parts[i])]
                  IN  SelectSeq(stripped, LAMBDA p : p # <<>>)
             ELSE <<>>

---------------------------------------------------------------------------
(* detect_variants.py: the four detection passes *)

\* The lists appended during the iterations of a loop, in iteration order.
RECURSIVE Flatten(_)
Flatten(lists) ==
    IF lists = <<>> THEN <<>> ELSE Head(lists) \o Flatten(Tail(lists))

\* Mutant: the variant named after the prop and the literal, joined by a hyphen.
enum_variants_of_prop_qualified(prop) ==
    IF prop.name \in DOMAIN VARIANT_PATTERNS
    THEN LET union_values == parse_union_type(prop.type)
             kept == SelectSeq(union_values,
                        LAMBDA v : InList(v, VARIANT_PATTERNS[prop.name]))
         IN  [i \in 1..Len(kept) |->
                Variant(str_capitalize(prop.name \o S("-") \o kept[i]),
                        prop.name \o S(": ") \o kept[i],
                        Dict1(prop.name, PyStr(kept[i])), 1)]
    ELSE <<>>

\* Mutant: the closed-list test of line 113 dropped.
enum_variants_of_prop_unfiltered(prop) ==
    IF prop.name \in DOMAIN VARIANT_PATTERNS
    THEN LET union_values == parse_union_type(prop.type)
         IN  [i \in 1..Len(union_values) |->
                Variant(str_capitalize(union_values[i]),
                        prop.name \o S(": ") \o union_values[i],
                        Dict1(prop.name, PyStr(union_values[i])), 1)]
    ELSE <<>>

\* Body of the `for prop in props` loop of _detect_enum_variants.
enum_variants_of_prop(prop) ==
    LET prop_name == prop.name
        prop_type == prop.type
    IN  IF prop_name \in DOMAIN VARIANT_PATTERNS
        THEN LET expected_values == VARIANT_PATTERNS[prop_name]
                 union_values == parse_union_type(prop_type)
             IN  Flatten([i \in 1..Len(union_values) |->
                    LET value == union_values[i]
                    IN  IF expected_values = <<>> \/ InList(value, expected_values)
                        THEN <<Variant(str_capitalize(value),
                                       prop_name \o S(": ") \o value,
                                       Dict1(prop_name, PyStr(value)),
                                       1)>>
                        ELSE <<>>])
        ELSE <<>>

detect_enum_variants(props) ==
    Flatten([i \in 1..Len(props) |-> enum_variants_of_prop(props[i])])

\* Mutant: a third branch that gives the medium literals a variant too.
size_variants_of_prop_medium(prop) ==
    IF InList(str_lower(prop.name), <<S("size"), S("fontsize")>>)
    THEN LET union_values == parse_union_type(prop.type)
         IN  Flatten([i \in 1..Len(union_values) |->
                LET value == union_values[i]
                    name == IF InList(str_lower(value), <<S("small"), S("sm"), S("xs")>>)
                            THEN S("Small")
                            ELSE IF InList(str_lower(value), <<S("large"), S("lg"), S("xl")>>)
                            THEN S("Large")
                            ELSE IF InList(str_lower(value), <<S("medium"), S("md")>>)
                            THEN S("Medium")
                            ELSE <<>>
                IN  IF name = <<>> THEN <<>>
                    ELSE <<Variant(name, name \o S(" size variant"),
                                   Dict1(prop.name, PyStr(value)), 2)>>])
    ELSE <<>>

\* Body of the `for prop in props` loop of _detect_size_variants.
size_variants_of_prop(prop) ==
    LET prop_name == prop.name
        prop_type == prop.type
    IN  IF InList(str_lower(prop_name), <<S("size"), S("fontsize")>>)
        THEN LET union_values == parse_union_type(prop_type)
             IN  Flatten([i \in 1..Len(union_values) |->
                    LET value == union_values[i]
                    IN  IF InList(str_lower(value), <<S("small"), S("sm"), S("xs")>>)
                        THEN <<Variant(S("Small"), S("Small size variant"),
                                       Dict1(prop_name, PyStr(value)), 2)>>
                        ELSE IF InList(str_lower(value),
                                       <<S("large"), S("lg"), S("xl")>>)
                        THEN <<Variant(S("Large"), S("Large size variant"),
                                       Dict1(prop_name, PyStr(value)), 2)>>
                        ELSE <<>>])
        ELSE <<>>

detect_size_variants(props) ==
    Flatten([i \in 1..Len(props) |-> size_variants_of_prop(props[i])])

\* Body of the `for prop in props` loop of _detect_state_variants.
state_variants_of_prop(prop) ==
    LET prop_name == prop.name
        prop_type == prop.type
    IN  IF /\ str_contains(S("boolean"), str_lower(prop_type))
           /\ InList(str_lower(prop_name), STATE_PROPS)
        THEN <<Variant(str_capitalize(prop_name),
                       prop_name \o S(" state"),
                       Dict1(prop_name, PyTrue),
                       2)>>
        ELSE <<>>

detect_state_variants(props) ==
    Flatten([i \in 1..Len(props) |-> state_variants_of_prop(props[i])])

\* any(p["name"].lower() in names for p in props)
any_prop_named(props, names) ==
    \E i \in 1..Len(props) : InList(str_lower(props[i].name), names)

\* Mutant: WithIcon appended without the has_icon test.
button_variants_always(props) ==
    <<Variant(S("WithIcon"), S("Button with icon"), EmptyDict, 3)>>

\* Mutant: Open appended only when an isOpen prop is declared.
modal_variants_guarded(props) ==
    IF any_prop_named(props, <<S("isopen")>>)
    THEN <<Variant(S("Open"), S("Modal in open state"), Dict1(S("isOpen"), PyTrue), 1)>>
    ELSE <<>>

\* Mutant: Empty built without priority=2, so it takes the dataclass default 1.
table_variants_default_priority(props) ==
    <<Variant(S("WithData"), S("Table with sample data"), EmptyDict, 1),
      Variant(S("Empty"), S("Table with no data"), EmptyDict, 1)>>

\* The branches of _detect_type_specific_variants.
button_variants(props) ==
    IF any_prop_named(props, <<S("icon"), S("lefticon"), S("righticon")>>)
    THEN <<Variant(S("WithIcon"), S("Button with icon"), EmptyDict, 3)>>
    ELSE <<>>

input_variants(props) ==
    IF any_prop_named(props, <<S("error"), S("iserror"), S("haserror")>>)
    THEN <<Variant(S("WithError"), S("Input with error state"),
                   Dict1(S("error"), PyStr(S("This field is required"))), 2)>>
    ELSE <<>>

modal_variants(props) ==
    <<Variant(S("Open"), S("Modal in open state"), Dict1(S("isOpen"), PyTrue), 1)>>

table_variants(props) ==
    <<Variant(S("WithData"), S("Table with sample data"), EmptyDict, 1),
      Variant(S("Empty"), S("Table with no data"), EmptyDict, 2)>>

detect_type_specific_variants(component_type, props) ==
    IF component_type = "button" THEN button_variants(props)
    ELSE IF component_type = "input" THEN input_variants(props)
    ELSE IF component_type = "modal" THEN modal_variants(props)
    ELSE IF component_type = "table" THEN table_variants(props)
    ELSE <<>>

---------------------------------------------------------------------------
(* detect_variants.py: detect_variants *)

\* Mutant: an unstable sort (insertion before the elements of equal key).
RECURSIVE sort_by_priority_unstable(_)
sort_by_priority_unstable(list) ==
    IF list = <<>> THEN <<>>
    ELSE LET n == Len(list)
             init == sort_by_priority_unstable(SubSeq(list, 1, n - 1))
             v == list[n]
             before == SelectSeq(init, LAMBDA w : w.priority < v.priority)
             after == SelectSeq(init, LAMBDA w : w.priority >= v.priority)
         IN  before \o <<v>> \o after

\* list.sort(key=...): a stable sort, here by insertion after the last
\* element whose key is not greater.
RECURSIVE sort_by_priority(_)
sort_by_priority(list) ==
    IF list = <<>> THEN <<>>
    ELSE LET n == Len(list)
             init == sort_by_priority(SubSeq(list, 1, n - 1))
             v == list[n]
             before == SelectSeq(init, LAMBDA w : w.priority <= v.priority)
             after == SelectSeq(init, LAMBDA w : w.priority > v.priority)
         IN  before \o <<v>> \o after

DefaultVariant == Variant(S("Default"), S("Default component state"), EmptyDict, 1)

\* The four passes, concatenated (lines 64-76).
detected_variants(props, component_type) ==
    detect_enum_variants(props)
        \o detect_size_variants(props)
        \o detect_state_variants(props)
        \o detect_type_specific_variants(component_type, props)

\* Mutant: the fallback never appended.
with_default_never(variants) == variants

\* Mutant: the fallback appended without the `if not variants` test.
with_default_always(variants) == variants \o <<DefaultVariant>>

\* Step 5: the fallback (lines 78-87).
with_default(variants) ==
    IF variants = <<>> THEN <<DefaultVariant>> ELSE variants

detect_variants(metadata) ==
    LET props == metadata.props
        component_type == metadata.component_type
    IN  sort_by_priority(with_default(detected_variants(props, component_type)))

---------------------------------------------------------------------------
(* Inputs *)

MaxProps == 2

Prop(name, type) == [name |-> S(name), type |-> S(type)]

\* The props the detector is run on: recognised and unrecognised names,
\* quoted (either quote) and unquoted unions, literals inside and outside
\* the closed lists, mixed case, boolean and boolean-containing types.
PropUniverse ==
    { Prop("variant", "'primary' | 'huge'"),
      Prop("variant", "string"),
      Prop("color", "\"info\" | \"danger\""),
      Prop("type", "button | submit"),
      Prop("label", "'primary' | 'secondary'"),
      Prop("size", "'small' | 'medium' | 'large'"),
      Prop("size", "'xs' | 'sm' | 'md'"),
      Prop("fontSize", "'md' | 'lg' | 'xl'"),
      Prop("Size", "'SM' | 'LG'"),
      Prop("size", "'2xl' | 'extra-large' | 'large'"),
      Prop("disabled", "boolean"),
      Prop("readOnly", "boolean"),
      Prop("selected", "boolean[]"),
      Prop("error", "string"),
      Prop("icon", "ReactNode"),
      Prop("isOpen", "boolean") }

ComponentTypes == {"button", "input", "modal", "table", "other"}

PropLists == UNION {[1..n -> PropUniverse] : n \in 0..MaxProps}

Methods ==
    {"detect_variants", "_detect_enum_variants", "_detect_size_variants",
     "_detect_state_variants", "_detect_type_specific_variants"}

---------------------------------------------------------------------------
(* State machine: one call of a VariantDetector method on one metadata *)

\* No parser call takes part: there is no file.
NoFile ==
    /\ component_path = <<>>
    /\ component_file = [readable |-> FALSE, content |-> <<>>]
    /\ opened = FALSE
    /\ parsed = [none |-> TRUE]

\* No scan and no worker is running.
NoBulk ==
    /\ project = [exists |-> FALSE, tree |-> <<>>]
    /\ component_files = <<>>
    /\ components = <<>>
    /\ scan_pc = "idle"
    /\ scan_i = 0
    /\ workers = <<>>

\* generate_story is not called.
NoStory ==
    /\ pc = "idle"
    /\ testing_level = <<>>
    /\ output_path = <<"None">>
    /\ templates = {}
    /\ output_file = <<"None">>
    /\ story_content = <<>>
    /\ returned = <<"None">>
    /\ printed = <<>>
    /\ given_variants = <<>>
    /\ history = <<>>

Init ==
    /\ component_metadata \in
          {[props |-> p, component_type |-> c] : p \in PropLists, c \in ComponentTypes}
    /\ called = "none"
    /\ result = <<>>
    /\ NoFile
    /\ NoStory
    /\ NoBulk

Call_detect_variants ==
    /\ called = "none"
    /\ called' = "detect_variants"
    /\ result' = detect_variants(component_metadata)
    /\ UNCHANGED <<component_metadata, files, story, bulk>>

Call_detect_enum_variants ==
    /\ called = "none"
    /\ called' = "_detect_enum_variants"
    /\ result' = detect_enum_variants(component_metadata.props)
    /\ UNCHANGED <<component_metadata, files, story, bulk>>

Call_detect_size_variants ==
    /\ called = "none"
    /\ called' = "_detect_size_variants"
    /\ result' = detect_size_variants(component_metadata.props)
    /\ UNCHANGED <<component_metadata, files, story, bulk>>

Call_detect_state_variants ==
    /\ called = "none"
    /\ called' = "_detect_state_variants"
    /\ result' = detect_state_variants(component_metadata.props)
    /\ UNCHANGED <<component_metadata, files, story, bulk>>

Call_detect_type_specific_variants ==
    /\ called = "none"
    /\ called' = "_detect_type_specific_variants"
    /\ result' = detect_type_specific_variants(component_metadata.component_type,
                                               component_metadata.props)
    /\ UNCHANGED <<component_metadata, files, story, bulk>>

Next ==
    \/ Call_detect_variants
    \/ Call_detect_enum_variants
    \/ Call_detect_size_variants
    \/ Call_detect_state_variants
    \/ Call_detect_type_specific_variants

Spec == Init /\ [][Next]_vars

TypeOK ==
    /\ called \in Methods \cup {"none"}
    /\ \A i \in 1..Len(result) : result[i].priority \in Nat

---------------------------------------------------------------------------
(* Properties of detect_variants.py *)

MdProps == component_metadata.props
MdType == component_metadata.component_type

\* What the claims say of a variant: its name, args and priority.
Core(v) == [name |-> v.name, args |-> v.args, priority |-> v.priority]

CountCore(list, c) == Cardinality({k \in 1..Len(list) : Core(list[k]) = c})

WithPriority(list, k) == SelectSeq(list, LAMBDA v : v.priority = k)

DefaultCore == [name |-> S("Default"), args |-> <<>>, priority |-> 1]

\* The results of the four passes on the metadata of the state, in
\* detection order.
PassResults ==
    detect_enum_variants(MdProps)
        \o detect_size_variants(MdProps)
        \o detect_state_variants(MdProps)
        \o detect_type_specific_variants(MdType, MdProps)

\* `lit` is a member of the literal union written in `type`: quoted with
\* either quote character, or bare between the bars.
NoSpaces(s) == SelectSeq(s, LAMBDA c : c # " ")

HasLiteral(type, lit) ==
    \/ \E q \in QuoteChars : str_contains(<<q>> \o lit \o <<q>>, type)
    \/ /\ \A i \in 1..Len(type) : type[i] \notin QuoteChars
       /\ str_contains(S("|"), type)
       /\ str_contains(S("|") \o lit \o S("|"), S("|") \o NoSpaces(type) \o S("|"))

\* C1: detect_variants returns at least one variant, and every returned
\* variant has priority 1, 2 or 3.
ThmC1_NonEmptyPriorities ==
    called = "detect_variants" =>
        /\ Len(result) >= 1
        /\ \A k \in 1..Len(result) : result[k].priority \in {1, 2, 3}

WitC1_AllPriorities ==
    /\ called = "detect_variants"
    /\ \A p \in {1, 2, 3} : \E k \in 1..Len(result) : result[k].priority = p

\* C2: the fallback is appended exactly when the four passes produced
\* nothing; then the result is the single variant Default with empty args
\* and priority 1, and otherwise no variant of the result is named Default.
ThmC2_FallbackIffNothingDetected ==
    called = "detect_variants" =>
        IF /\ detect_enum_variants(MdProps) = <<>>
           /\ detect_size_variants(MdProps) = <<>>
           /\ detect_state_variants(MdProps) = <<>>
           /\ detect_type_specific_variants(MdType, MdProps) = <<>>
        THEN Len(result) = 1 /\ Core(result[1]) = DefaultCore
        ELSE \A k \in 1..Len(result) : result[k].name # S("Default")

WitC2_FallbackWithProps ==
    /\ called = "detect_variants"
    /\ Len(MdProps) = MaxProps
    /\ MdType = "button"
    /\ Len(result) = 1
    /\ result[1].name = S("Default")

\* C3: the result is ordered by priority ascending; variants of equal
\* priority keep their detection order (enum, size, state, type-specific
\* results), and each pass over the props emits in the order of the props:
\* what it emits for a list is what it emits for the first prop followed
\* by what it emits for the rest.
ThmC3_StableOrder ==
    called = "detect_variants" =>
        /\ \A i, j \in 1..Len(result) :
              i < j => result[i].priority <= result[j].priority
        /\ PassResults # <<>> =>
              /\ Len(result) = Len(PassResults)
              /\ \A p \in {1, 2, 3} :
                    WithPriority(result, p) = WithPriority(PassResults, p)
        /\ MdProps # <<>> =>
              LET front == <<Head(MdProps)>>
                  back == Tail(MdProps)
              IN  /\ detect_enum_variants(MdProps) =
                        detect_enum_variants(front) \o detect_enum_variants(back)
                  /\ detect_size_variants(MdProps) =
                        detect_size_variants(front) \o detect_size_variants(back)
                  /\ detect_state_variants(MdProps) =
                        detect_state_variants(front) \o detect_state_variants(back)

\* The sort had to move something, and two different variants tie.
WitC3_ReorderedWithTies ==
    /\ called = "detect_variants"
    /\ \E i, j \in 1..Len(PassResults) :
          i < j /\ PassResults[i].priority > PassResults[j].priority
    /\ \E i, j \in 1..Len(result) :
          /\ i < j
          /\ result[i].priority = result[j].priority
          /\ result[i] # result[j]

\* C4: the enum pass emits, for every prop named by a recognised role and
\* every literal of its union that is in the closed list of that name,
\* exactly one priority-1 variant named by the capitalised literal with
\* args {propName: literal}, and emits nothing else.
RecognizedRoles ==
    {S("variant"), S("color"), S("size"), S("type"), S("appearance"), S("intent")}

ExpectedEnum(name, lit) ==
    [name |-> str_capitalize(lit), args |-> Dict1(name, PyStr(lit)), priority |-> 1]

ThmC4_EnumPass ==
    called = "_detect_enum_variants" =>
        /\ \A k \in 1..Len(result) :
              \E i \in 1..Len(MdProps) :
                  /\ MdProps[i].name \in RecognizedRoles
                  /\ \E j \in 1..Len(VARIANT_PATTERNS[MdProps[i].name]) :
                        LET lit == VARIANT_PATTERNS[MdProps[i].name][j]
                        IN  /\ HasLiteral(MdProps[i].type, lit)
                            /\ Core(result[k]) = ExpectedEnum(MdProps[i].name, lit)
        /\ \A i \in 1..Len(MdProps) :
              MdProps[i].name \in RecognizedRoles =>
                  \A j \in 1..Len(VARIANT_PATTERNS[MdProps[i].name]) :
                      LET lit == VARIANT_PATTERNS[MdProps[i].name][j]
                      IN  HasLiteral(MdProps[i].type, lit) =>
                             CountCore(result, ExpectedEnum(MdProps[i].name, lit)) =
                                Cardinality({h \in 1..Len(MdProps) :
                                               /\ MdProps[h].name = MdProps[i].name
                                               /\ HasLiteral(MdProps[h].type, lit)})

\* A recognised prop whose union holds a literal outside the closed list,
\* next to a prop whose name is no recognised role.
WitC4_FilteredLiteral ==
    /\ called = "_detect_enum_variants"
    /\ \E i, h \in 1..Len(MdProps) :
          /\ MdProps[i].name = S("variant")
          /\ HasLiteral(MdProps[i].type, S("huge"))
          /\ MdProps[h].name = S("label")
          /\ HasLiteral(MdProps[h].type, S("primary"))
    /\ Len(result) = 1
    /\ result[1].name = S("Primary")

\* The literal families of the size pass.
SmallFamily == {S("small"), S("sm"), S("xs")}
LargeFamily == {S("large"), S("lg"), S("xl")}
MediumFamily == {S("medium"), S("md")}

HasFamily(type, family) == \E lit \in family : HasLiteral(type, lit)

\* The variants of `list` named `name` that set the prop `prop_name`.
NamedFor(list, name, prop_name) ==
    {k \in 1..Len(list) : list[k].name = name /\ DOMAIN list[k].args = {prop_name}}

\* C5: in the size pass, a prop named size or fontSize whose union holds
\* small-ish literals gets exactly one priority-2 variant named Small, and
\* one whose union holds large-ish literals exactly one priority-2 variant
\* named Large, however many literals of the family the union holds.
ClaimC5_OneSmallOneLarge ==
    called = "_detect_size_variants" =>
        \A i \in 1..Len(MdProps) :
            /\ MdProps[i].name \in {S("size"), S("fontSize")}
            /\ \A h \in 1..Len(MdProps) : h # i => MdProps[h].name # MdProps[i].name
            => /\ HasFamily(MdProps[i].type, SmallFamily) =>
                    /\ Cardinality(NamedFor(result, S("Small"), MdProps[i].name)) = 1
                    /\ \A k \in NamedFor(result, S("Small"), MdProps[i].name) :
                          result[k].priority = 2
               /\ HasFamily(MdProps[i].type, LargeFamily) =>
                    /\ Cardinality(NamedFor(result, S("Large"), MdProps[i].name)) = 1
                    /\ \A k \in NamedFor(result, S("Large"), MdProps[i].name) :
                          result[k].priority = 2

\* A prop named size whose union holds a medium-equivalent literal.
HasMediumSizeProp ==
    \E i \in 1..Len(MdProps) :
        MdProps[i].name = S("size") /\ HasFamily(MdProps[i].type, MediumFamily)

\* A variant for the medium literal: named Medium or Md, or setting the
\* size prop to medium or md.
IsForMedium(v) ==
    \/ v.name \in {S("Medium"), S("Md")}
    \/ /\ S("size") \in DOMAIN v.args
       /\ v.args[S("size")] \in {PyStr(lit) : lit \in MediumFamily}

\* C6 as stated: with such a prop, the list returned by detect_variants
\* holds no variant for the medium literal.
ClaimC6_NoMediumVariant ==
    called = "detect_variants" /\ HasMediumSizeProp =>
        \A k \in 1..Len(result) : ~IsForMedium(result[k])

\* C6, amended: with such a prop, the size pass returns no variant for the
\* medium literal, and every variant for it in the list returned by
\* detect_variants is the priority-1 variant of the enum pass.
ThmC6_NoMediumFromSizePass ==
    HasMediumSizeProp =>
        /\ called = "_detect_size_variants" =>
              \A k \in 1..Len(result) : ~IsForMedium(result[k])
        /\ called = "detect_variants" =>
              \A k \in 1..Len(result) :
                  IsForMedium(result[k]) =>
                      \E lit \in MediumFamily :
                          Core(result[k]) = ExpectedEnum(S("size"), lit)

\* The size pass ran on such a prop, emitted for its other literals and
\* nothing for the medium one.
WitC6_MediumSkipped ==
    /\ called = "_detect_size_variants"
    /\ HasMediumSizeProp
    /\ Len(result) >= 2
    /\ \A k \in 1..Len(result) : ~IsForMedium(result[k])

\* The type text is the boolean type.
IsBooleanTyped(type) == str_lower(str_strip(type)) = S("boolean")

IsStateName(name) == InList(str_lower(name), STATE_PROPS)

ExpectedState(name) ==
    [name |-> str_capitalize(name), args |-> Dict1(name, PyTrue), priority |-> 2]

\* C7: the state pass emits exactly one priority-2 variant, named by the
\* capitalised prop name and setting that prop to true, for every
\* boolean-typed prop whose name is in the closed list, and no variant for
\* a prop that is not boolean-typed or whose name is outside the list.
ClaimC7_StatePass ==
    called = "_detect_state_variants" =>
        /\ \A k \in 1..Len(result) :
              \E i \in 1..Len(MdProps) :
                  /\ IsBooleanTyped(MdProps[i].type)
                  /\ IsStateName(MdProps[i].name)
                  /\ Core(result[k]) = ExpectedState(MdProps[i].name)
        /\ \A i \in 1..Len(MdProps) :
              IsBooleanTyped(MdProps[i].type) /\ IsStateName(MdProps[i].name) =>
                  CountCore(result, ExpectedState(MdProps[i].name)) =
                      Cardinality({h \in 1..Len(MdProps) :
                                     /\ MdProps[h].name = MdProps[i].name
                                     /\ IsBooleanTyped(MdProps[h].type)})

\* C8: for a modal, whatever the props, detect_variants returns a
\* priority-1 variant named Open whose args map isOpen to true.
OpenCore == [name |-> S("Open"), args |-> Dict1(S("isOpen"), PyTrue), priority |-> 1]

ThmC8_ModalOpen ==
    called = "detect_variants" /\ MdType = "modal" =>
        \E k \in 1..Len(result) : Core(result[k]) = OpenCore

\* A modal that declares no isOpen prop and whose props trigger no rule.
WitC8_ModalOnlyOpen ==
    /\ called = "detect_variants"
    /\ MdType = "modal"
    /\ MdProps # <<>>
    /\ \A i \in 1..Len(MdProps) : MdProps[i].name # S("isOpen")
    /\ Len(result) = 1
    /\ Core(result[1]) = OpenCore

\* C9: for a table, whatever the props, detect_variants returns a
\* priority-1 variant named WithData and a priority-2 variant named Empty,
\* WithData before Empty.
ThmC9_TableWithDataEmpty ==
    called = "detect_variants" /\ MdType = "table" =>
        \E i, j \in 1..Len(result) :
            /\ i < j
            /\ result[i].name = S("WithData") /\ result[i].priority = 1
            /\ result[j].name = S("Empty") /\ result[j].priority = 2

\* A table whose props add variants of both priorities around the two.
WitC9_TableAmongOthers ==
    /\ called = "detect_variants"
    /\ MdType = "table"
    /\ result[1].name # S("WithData")
    /\ \E i, k, j \in 1..Len(result) :
          /\ i < k /\ k < j
          /\ result[i].name = S("WithData")
          /\ result[k].priority = 2
          /\ result[j].name = S("Empty")

\* C10 as stated: with no props, whatever the component type, the list
\* returned by detect_variants is exactly the one variant Default.
ClaimC10_NoPropsDefault ==
    called = "detect_variants" /\ MdProps = <<>> =>
        Len(result) = 1 /\ Core(result[1]) = DefaultCore

\* C10, amended: with no props the list is exactly the one variant Default
\* unless the component type is modal or table; for a modal it is exactly
\* Open, for a table exactly WithData, Empty.
ThmC10_NoPropsDefaultUnlessModalTable ==
    called = "detect_variants" /\ MdProps = <<>> =>
        IF MdType = "modal"
        THEN Len(result) = 1 /\ Core(result[1]) = OpenCore
        ELSE IF MdType = "table"
        THEN /\ Len(result) = 2
             /\ Core(result[1]) =
                   [name |-> S("WithData"), args |-> <<>>, priority |-> 1]
             /\ Core(result[2]) =
                   [name |-> S("Empty"), args |-> <<>>, priority |-> 2]
        ELSE Len(result) = 1 /\ Core(result[1]) = DefaultCore

WitC10_ButtonNoProps ==
    /\ called = "detect_variants"
    /\ MdProps = <<>>
    /\ MdType = "button"
    /\ Len(result) = 1
    /\ result[1].name = S("Default")

---------------------------------------------------------------------------
(***************************************************************************)
(* Part 2: skills/story-generation/scripts/parse_component.py              *)
(*                                                                         *)
(* The regular expressions of the parsers are kept as syntax trees and run *)
(* by a backtracking matcher with the semantics of Python's re module:     *)
(* leftmost match, greedy repetition, alternatives tried in order.         *)
(***************************************************************************)

(* Regular expressions: a pattern is a sequence of nodes *)

Digits == {"0", "1", "2", "3", "4", "5", "6", "7", "8", "9"}
UpperChars == DOMAIN ToLower
LowerChars == DOMAIN ToUpper
WordChars == UpperChars \cup LowerChars \cup Digits \cup {"_"}

\* [...] and [^...]
In(chars) == [kind |-> "set", neg |-> FALSE, chars |-> chars]
NotIn(chars) == [kind |-> "set", neg |-> TRUE, chars |-> chars]
\* literal text
Lit(str) == [i \in 1..Len(str) |-> In({SubSeq(str, i, i)})]
\* x* and x+ for a character set x (greedy)
Star(set) == [kind |-> "rep", neg |-> set.neg, chars |-> set.chars, min |-> 0]
Plus(set) == [kind |-> "rep", neg |-> set.neg, chars |-> set.chars, min |-> 1]
\* (?:...)? and x? (greedy)
Opt(item) == [kind |-> "opt", item |-> item]
\* (...) as capture group idx
Group(idx, item) == [kind |-> "group", idx |-> idx, item |-> item]
\* a|b
Alt(items) == [kind |-> "alt", items |-> items]

NoGroup == <<0, 0>>
ReFail == [ok |-> FALSE]

SetAccepts(node, c) == (c \in node.chars) # node.neg

\* The number of consecutive characters of s from pos on that node accepts.
RunLength(node, s, pos) ==
    LET stops == {i \in pos..Len(s) : ~SetAccepts(node, s[i])}
    IN  IF stops = {} THEN Len(s) + 1 - pos
        ELSE (CHOOSE i \in stops : \A j \in stops : i <= j) - pos

\* The first of two attempts that succeeds (the second is tried on failure).
first_ok(r, otherwise) == IF r.ok THEN r ELSE otherwise

\* Of the attempts rest[min..k], the one with the longest run that succeeds.
longest_fit(rest, min, k) ==
    LET fits == {n \in min..k : rest[n].ok}
    IN  IF fits = {} THEN ReFail
        ELSE rest[CHOOSE n \in fits : \A m \in fits : m <= n]

\* Match `nodes` against s from pos on; caps[i] is the span <<first, last+1>>
\* of group i, NoGroup when the group did not take part.
RECURSIVE re_match(_, _, _, _)
RECURSIVE re_match_rep(_, _, _, _, _, _)
RECURSIVE re_match_alt(_, _, _, _, _)
re_match(nodes, s, pos, caps) ==
    IF Len(nodes) = 0 THEN [ok |-> TRUE, end |-> pos, caps |-> caps]
    ELSE CASE Head(nodes).kind = "set" ->
                IF pos <= Len(s) /\ SetAccepts(Head(nodes), s[pos])
                THEN re_match(Tail(nodes), s, pos + 1, caps)
                ELSE ReFail
           [] Head(nodes).kind = "rep" ->
                re_match_rep(RunLength(Head(nodes), s, pos), Head(nodes).min,
                             Tail(nodes), s, pos, caps)
           [] Head(nodes).kind = "opt" ->
                first_ok(re_match(Head(nodes).item \o Tail(nodes), s, pos, caps),
                         re_match(Tail(nodes), s, pos, caps))
           [] Head(nodes).kind = "group" ->
                re_match(Head(nodes).item
                           \o <<[kind |-> "close", idx |-> Head(nodes).idx,
                                 start |-> pos]>>
                           \o Tail(nodes), s, pos, caps)
           [] Head(nodes).kind = "close" ->
                re_match(Tail(nodes), s, pos,
                         [caps EXCEPT ![Head(nodes).idx] = <<Head(nodes).start, pos>>])
           [] Head(nodes).kind = "alt" ->
                re_match_alt(Head(nodes).items, Tail(nodes), s, pos, caps)

\* Greedy repetition: the longest run of at most k characters after which
\* the rest of the pattern matches.
re_match_rep(k, min, t, s, pos, caps) ==
    longest_fit([n \in min..k |-> re_match(t, s, pos + n, caps)], min, k)

re_match_alt(items, t, s, pos, caps) ==
    IF Len(items) = 0 THEN ReFail
    ELSE first_ok(re_match(Head(items) \o t, s, pos, caps),
                  re_match_alt(Tail(items), t, s, pos, caps))

\* Of the attempts at[lo..hi], one per start position, the leftmost success.
leftmost_hit(at, lo, hi) ==
    LET hits == {p \in lo..hi : at[p].ok}
        start == CHOOSE p \in hits : \A q \in hits : p <= q
    IN  IF hits = {} THEN ReFail
        ELSE [ok |-> TRUE, start |-> start, end |-> at[start].end,
              caps |-> at[start].caps]

\* pattern.search(s, pos): the match at the leftmost position from pos on.
re_search_from(nodes, ngroups, s, pos) ==
    leftmost_hit([p \in pos..Len(s) + 1 |->
                     re_match(nodes, s, p, [i \in 1..ngroups |-> NoGroup])],
                 pos, Len(s) + 1)

re_search(nodes, ngroups, s) == re_search_from(nodes, ngroups, s, 1)

\* re.finditer: the successive non-overlapping matches; m is the first one.
RECURSIVE re_finditer_from(_, _, _, _)
RECURSIVE matches_after(_, _, _, _)
matches_after(m, nodes, ngroups, s) ==
    IF ~m.ok THEN <<>>
    ELSE <<m>> \o re_finditer_from(nodes, ngroups, s,
                                   IF m.end > m.start THEN m.end ELSE m.end + 1)

re_finditer_from(nodes, ngroups, s, pos) ==
    matches_after(re_search_from(nodes, ngroups, s, pos), nodes, ngroups, s)

re_finditer(nodes, ngroups, s) == re_finditer_from(nodes, ngroups, s, 1)

\* match.group(i); None is NoneStr
NoneStr == <<"None">>
HasGroup(m, i) == m.caps[i] # NoGroup
re_group(s, m, i) ==
    IF HasGroup(m, i) THEN SubSeq(s, m.caps[i][1], m.caps[i][2] - 1) ELSE NoneStr

---------------------------------------------------------------------------
(* Strings and paths used by the parsers *)

\* str.split() without argument: the maximal runs of non-whitespace.
RECURSIVE str_split_ws(_)
str_split_ws(s) ==
    LET stripped == str_strip(s)
        ws == {i \in 1..Len(stripped) : stripped[i] \in Whitespace}
    IN  IF stripped = <<>> THEN <<>>
        ELSE IF ws = {} THEN <<stripped>>
        ELSE LET p == CHOOSE i \in ws : \A j \in ws : i <= j
             IN  <<SubSeq(stripped, 1, p - 1)>>
                     \o str_split_ws(SubSeq(stripped, p + 1, Len(stripped)))

\* sep.join(list)
RECURSIVE str_join(_, _)
str_join(sep, list) ==
    IF Len(list) = 0 THEN <<>>
    ELSE IF Len(list) = 1 THEN list[1]
    ELSE list[1] \o sep \o str_join(sep, Tail(list))

\* s.startswith(prefix), s.endswith(suffix)
str_startswith(s, prefix) ==
    Len(prefix) <= Len(s) /\ SubSeq(s, 1, Len(prefix)) = prefix
str_endswith(s, suffix) ==
    Len(suffix) <= Len(s) /\ SubSeq(s, Len(s) - Len(suffix) + 1, Len(s)) = suffix

\* Position of the last occurrence of character c in s, 0 when absent.
LastIndexOf(s, c) ==
    LET at == {i \in 1..Len(s) : s[i] = c}
    IN  IF at = {} THEN 0 ELSE CHOOSE i \in at : \A j \in at : j <= i

\* Path(p).name: the final path component
path_name(p) == SubSeq(p, LastIndexOf(p, "/") + 1, Len(p))

\* Path(p).suffix: from the last dot of the name on, unless that dot is the
\* first or the last character of the name
path_suffix(p) ==
    LET name == path_name(p)
        i == LastIndexOf(name, ".")
    IN  IF 1 < i /\ i < Len(name) THEN SubSeq(name, i, Len(name)) ELSE <<>>

\* Path(p).stem
path_stem(p) ==
    LET name == path_name(p)
        i == LastIndexOf(name, ".")
    IN  IF 1 < i /\ i < Len(name) THEN SubSeq(name, 1, i - 1) ELSE name

---------------------------------------------------------------------------
(* parse_component.py: records *)

\* @dataclass PropDefinition
PropDefinition(name, type, required, default_value) ==
    [name |-> name, type |-> type, required |-> required,
     default_value |-> default_value, description |-> NoneStr]

\* @dataclass ComponentMetadata
ComponentMetadata(name, file_path, framework, props, component_type, has_children, exports_default) ==
    [name |-> name, file_path |-> file_path, framework |-> framework,
     props |-> props, component_type |-> component_type,
     has_children |-> has_children, exports_default |-> exports_default]

\* The value None returned in place of a ComponentMetadata
NoneMetadata == [none |-> TRUE]

---------------------------------------------------------------------------
(* parse_component.py: ComponentParser.classify_component *)

\* The checks of classify_component in their order: the terms looked for
\* in the lower-cased name, and the category returned.
Check(terms, category) == [terms |-> terms, category |-> category]

CLASSIFY_CHECKS ==
    << Check(<<S("button"), S("btn")>>, "button"),
       Check(<<S("input"), S("textfield"), S("textarea")>>, "input"),
       Check(<<S("select"), S("dropdown"), S("combo")>>, "select"),
       Check(<<S("checkbox"), S("check")>>, "checkbox"),
       Check(<<S("radio")>>, "radio"),
       Check(<<S("switch"), S("toggle")>>, "switch"),
       Check(<<S("card")>>, "card"),
       Check(<<S("modal"), S("dialog")>>, "modal"),
       Check(<<S("sidebar"), S("drawer")>>, "sidebar"),
       Check(<<S("container"), S("box"), S("grid")>>, "layout"),
       Check(<<S("table"), S("datagrid")>>, "table"),
       Check(<<S("list")>>, "list"),
       Check(<<S("chart"), S("graph")>>, "chart"),
       Check(<<S("badge"), S("tag"), S("chip")>>, "badge"),
       Check(<<S("avatar")>>, "avatar"),
       Check(<<S("alert"), S("notification")>>, "alert"),
       Check(<<S("toast"), S("snackbar")>>, "toast"),
       Check(<<S("progress"), S("loader"), S("spinner")>>, "progress"),
       Check(<<S("menu"), S("nav")>>, "menu"),
       Check(<<S("tab")>>, "tabs"),
       Check(<<S("breadcrumb")>>, "breadcrumb"),
       Check(<<S("pagination"), S("pager")>>, "pagination") >>

\* any(term in name_lower for term in terms)
any_term_in(terms, name_lower) ==
    \E i \in 1..Len(terms) : str_contains(terms[i], name_lower)

\* Mutant: the tabs check moved in front of the table check.
classify_checks_tabs_first ==
    LET n == Len(CLASSIFY_CHECKS)
        tabs == CHOOSE i \in 1..n : CLASSIFY_CHECKS[i].category = "tabs"
        table == CHOOSE i \in 1..n : CLASSIFY_CHECKS[i].category = "table"
    IN  SubSeq(CLASSIFY_CHECKS, 1, table - 1)
            \o <<CLASSIFY_CHECKS[tabs]>>
            \o SubSeq(CLASSIFY_CHECKS, table, tabs - 1)
            \o SubSeq(CLASSIFY_CHECKS, tabs + 1, n)

\* The checks in the order the `if` statements are written.
classify_checks == CLASSIFY_CHECKS

\* The chain of `if ... return` statements from check k on, then 'other'.
RECURSIVE classify_from(_, _)
classify_from(k, name_lower) ==
    IF k > Len(classify_checks) THEN "other"
    ELSE IF any_term_in(classify_checks[k].terms, name_lower)
         THEN classify_checks[k].category
         ELSE classify_from(k + 1, name_lower)

classify_component(name, props) == classify_from(1, str_lower(name))

---------------------------------------------------------------------------
(* parse_component.py: ReactTypeScriptParser *)

WS == In(Whitespace)
Word == In(WordChars)
\* ([A-Z][A-Za-z0-9_]*) as group 1
UpperIdent == Group(1, <<In(UpperChars), Star(Word)>>)

\* r'function\s+([A-Z][A-Za-z0-9_]*)'
R_FUNCTION == Lit("function") \o <<Plus(WS), UpperIdent>>
\* r'const\s+([A-Z][A-Za-z0-9_]*)\s*[=:]'
R_CONST == Lit("const") \o <<Plus(WS), UpperIdent, Star(WS), In({"=", ":"})>>
\* r'export\s+(?:default\s+)?function\s+([A-Z][A-Za-z0-9_]*)'
R_EXPORT ==
    Lit("export") \o <<Plus(WS), Opt(Lit("default") \o <<Plus(WS)>>)>>
        \o Lit("function") \o <<Plus(WS), UpperIdent>>

\* Mutant: the constant rule tried before the function rule.
name_rules_const_first == <<R_CONST, R_FUNCTION, R_EXPORT>>

\* The rules of _extract_component_name in the order they are tried.
name_rules == <<R_FUNCTION, R_CONST, R_EXPORT>>

\* The first rule from k on that matches gives the name; none: the stem.
\* match is the result of the search for rule k.
RECURSIVE extract_name_from(_, _, _)
RECURSIVE name_of_match(_, _, _, _)
name_of_match(match, k, content, file_path) ==
    IF match.ok THEN re_group(content, match, 1)
    ELSE extract_name_from(k + 1, content, file_path)

extract_name_from(k, content, file_path) ==
    IF k > Len(name_rules) THEN path_stem(file_path)
    ELSE name_of_match(re_search(name_rules[k], 1, content), k, content, file_path)

extract_component_name(content, file_path) ==
    extract_name_from(1, content, file_path)

\* The component name as it stands inside the f-string pattern: it is not
\* escaped, so "(" opens a capture group, ")" closes one and "." matches any
\* character (re.DOTALL).  ok is FALSE where re.compile raises re.error
\* (a parenthesis without its partner).  Names are drawn from word
\* characters, "-", ".", "(" and ")".
RECURSIVE name_fragment(_, _, _)
name_fragment(name, pos, idx) ==
    IF pos > Len(name) \/ name[pos] = ")"
    THEN [ok |-> TRUE, nodes |-> <<>>, pos |-> pos, idx |-> idx]
    ELSE IF name[pos] = "("
    THEN LET inner == name_fragment(name, pos + 1, idx + 1)
         IN  IF ~inner.ok \/ inner.pos > Len(name)
             THEN [ok |-> FALSE, nodes |-> <<>>, pos |-> pos, idx |-> idx]
             ELSE LET rest == name_fragment(name, inner.pos + 1, inner.idx)
                  IN  [rest EXCEPT !.nodes = <<Group(idx, inner.nodes)>> \o @]
    ELSE LET rest == name_fragment(name, pos + 1, idx)
             node == IF name[pos] = "." THEN NotIn({}) ELSE In({name[pos]})
         IN  [rest EXCEPT !.nodes = <<node>> \o @]

\* re.compile of a pattern head + name + tail + r'\{([^}]+)\}'; the block
\* group is numbered after the groups the name opens.
compiled_with(frag, complete, head, tail) ==
    IF ~frag.ok \/ ~complete THEN [ok |-> FALSE]
    ELSE [ok |-> TRUE, ngroups |-> frag.idx,
          nodes |-> head \o frag.nodes \o tail \o Lit("{")
                      \o <<Group(frag.idx, <<Plus(NotIn({"}"}))>>)>>
                      \o Lit("}")]

compile_props_pattern(head, name, tail) ==
    compiled_with(name_fragment(name, 1, 1),
                  name_fragment(name, 1, 1).pos > Len(name), head, tail)

\* rf'interface\s+{component_name}Props\s*\{{([^}}]+)\}}'
interface_pattern(component_name) ==
    compile_props_pattern(Lit("interface") \o <<Plus(WS)>>, component_name,
                          Lit("Props") \o <<Star(WS)>>)
\* r'interface\s+Props\s*\{([^}]+)\}'
generic_interface_pattern == interface_pattern(<<>>)
\* rf'type\s+{component_name}Props\s*=\s*\{{([^}}]+)\}}'
type_pattern(component_name) ==
    compile_props_pattern(Lit("type") \o <<Plus(WS)>>, component_name,
                          Lit("Props") \o <<Star(WS), In({"="}), Star(WS)>>)
\* r'type\s+Props\s*=\s*\{([^}]+)\}'
generic_type_pattern == type_pattern(<<>>)

\* r'(\w+)(\?)?:\s*([^;]+);?'
R_REACT_PROP ==
    <<Group(1, <<Plus(Word)>>), Opt(<<Group(2, Lit("?"))>>), In({":"}),
      Star(WS), Group(3, <<Plus(NotIn({";"}))>>), Opt(Lit(";"))>>

\* The body of the loop over re.finditer(prop_pattern, props_block)
react_prop_of_match(props_block, prop_match) ==
    PropDefinition(re_group(props_block, prop_match, 1),
                   str_join(S(" "),
                            str_split_ws(str_strip(re_group(props_block, prop_match, 3)))),
                   ~(re_group(props_block, prop_match, 2) = S("?")),
                   NoneStr)

react_props_of_matches(props_block, matches) ==
    [i \in 1..Len(matches) |-> react_prop_of_match(props_block, matches[i])]

react_props_of_block(props_block) ==
    react_props_of_matches(props_block, re_finditer(R_REACT_PROP, 3, props_block))

\* The patterns of _extract_props in the order they are searched.
props_patterns(component_name) ==
    <<interface_pattern(component_name), generic_interface_pattern,
      type_pattern(component_name), generic_type_pattern>>

\* The first pattern from k on that matches; raised where a pattern that is
\* reached does not compile.  match is the result of the search for pattern k.
RECURSIVE search_props_block(_, _, _)
RECURSIVE block_of_match(_, _, _, _)
block_of_match(match, k, patterns, content) ==
    IF match.ok
    THEN [raised |-> FALSE, found |-> TRUE,
          props_block |-> re_group(content, match, 1)]
    ELSE search_props_block(k + 1, patterns, content)

search_props_block(k, patterns, content) ==
    IF k > Len(patterns) THEN [raised |-> FALSE, found |-> FALSE]
    ELSE IF ~patterns[k].ok THEN [raised |-> TRUE, found |-> FALSE]
    ELSE block_of_match(re_search(patterns[k].nodes, patterns[k].ngroups, content),
                        k, patterns, content)

\* The `if match:` part of _extract_props: raised, or the list of props
props_of_found(found) ==
    IF found.raised THEN [raised |-> TRUE, props |-> <<>>]
    ELSE IF ~found.found THEN [raised |-> FALSE, props |-> <<>>]
    ELSE IF found.props_block = NoneStr
         THEN [raised |-> TRUE, props |-> <<>>]
    ELSE [raised |-> FALSE, props |-> react_props_of_block(found.props_block)]

\* ReactTypeScriptParser._extract_props
react_extract_props(content, component_name) ==
    props_of_found(search_props_block(1, props_patterns(component_name), content))

\* any(p.name == 'children' for p in props)
has_children_prop(props) == \E i \in 1..Len(props) : props[i].name = S("children")

\* The return statement of ReactTypeScriptParser.parse; an exception raised
\* by _extract_props ends in `return None`.
react_metadata(file_path, content, name, extracted) ==
    IF extracted.raised THEN NoneMetadata
    ELSE ComponentMetadata(name, file_path, "react", extracted.props,
                           classify_component(name, extracted.props),
                           has_children_prop(extracted.props),
                           str_contains(S("export default"), content))

\* ReactTypeScriptParser.parse from `if not name` on
react_parse_named(file_path, content, name) ==
    IF name = <<>> THEN NoneMetadata
    ELSE react_metadata(file_path, content, name, react_extract_props(content, name))

\* ReactTypeScriptParser.parse, given whether open() succeeds and what
\* read() returns.  Every exception ends in `return None`.
ReactTypeScriptParser_parse(file_path, readable, content) ==
    IF ~readable THEN NoneMetadata
    ELSE react_parse_named(file_path, content,
                           extract_component_name(content, file_path))

---------------------------------------------------------------------------
(* parse_component.py: VueParser *)

\* r'defineProps<\{([^}]+)\}>'
R_DEFINE_PROPS_TS ==
    Lit("defineProps<{") \o <<Group(1, <<Plus(NotIn({"}"}))>>)>> \o Lit("}>")
\* r'(\w+)(\?)?:\s*([^;,]+)'
R_VUE_PROP ==
    <<Group(1, <<Plus(Word)>>), Opt(<<Group(2, Lit("?"))>>), In({":"}),
      Star(WS), Group(3, <<Plus(NotIn({";", ","}))>>)>>
\* r'defineProps\(\{([^}]+)\}\)'
R_DEFINE_PROPS_RUNTIME ==
    Lit("defineProps({") \o <<Group(1, <<Plus(NotIn({"}"}))>>)>> \o Lit("})")
\* r'(\w+):\s*\{[^}]*type:\s*(\w+)[^}]*required:\s*(true|false)?[^}]*\}'
R_VUE_RUNTIME_PROP ==
    <<Group(1, <<Plus(Word)>>), In({":"}), Star(WS), In({"{"}),
      Star(NotIn({"}"}))>>
        \o Lit("type:") \o <<Star(WS), Group(2, <<Plus(Word)>>),
                             Star(NotIn({"}"}))>>
        \o Lit("required:")
        \o <<Star(WS), Opt(<<Group(3, <<Alt(<<Lit("true"), Lit("false")>>)>>)>>),
             Star(NotIn({"}"})), In({"}"})>>

\* The loop over the defineProps<{...}> block
vue_prop_of_match(props_block, prop_match) ==
    PropDefinition(re_group(props_block, prop_match, 1),
                   str_strip(re_group(props_block, prop_match, 3)),
                   ~(re_group(props_block, prop_match, 2) = S("?")),
                   NoneStr)

vue_props_of_matches(props_block, matches) ==
    [i \in 1..Len(matches) |-> vue_prop_of_match(props_block, matches[i])]

vue_props_of_block(props_block) ==
    vue_props_of_matches(props_block, re_finditer(R_VUE_PROP, 3, props_block))

\* The loop over the defineProps({...}) block
vue_runtime_prop_of_match(props_block, prop_match) ==
    PropDefinition(re_group(props_block, prop_match, 1),
                   re_group(props_block, prop_match, 2),
                   IF re_group(props_block, prop_match, 3) # NoneStr
                   THEN re_group(props_block, prop_match, 3) = S("true")
                   ELSE FALSE,
                   NoneStr)

vue_runtime_props_of_matches(props_block, matches) ==
    [i \in 1..Len(matches) |-> vue_runtime_prop_of_match(props_block, matches[i])]

vue_runtime_props_of_block(props_block) ==
    vue_runtime_props_of_matches(props_block,
                                 re_finditer(R_VUE_RUNTIME_PROP, 3, props_block))

\* `if match:` ... of VueParser._extract_props
vue_ts_props(content, match) ==
    IF match.ok THEN vue_props_of_block(re_group(content, match, 1)) ELSE <<>>

\* `if runtime_match and not props:` ... `return props`
vue_props_or_runtime(content, props, runtime_match) ==
    IF runtime_match.ok /\ props = <<>>
    THEN vue_runtime_props_of_block(re_group(content, runtime_match, 1))
    ELSE props

\* VueParser._extract_props
vue_extract_props(content) ==
    vue_props_or_runtime(content,
                         vue_ts_props(content, re_search(R_DEFINE_PROPS_TS, 1, content)),
                         re_search(R_DEFINE_PROPS_RUNTIME, 1, content))

\* The return statement of VueParser.parse
vue_metadata(file_path, content, name, props) ==
    ComponentMetadata(name, file_path, "vue", props,
                      classify_component(name, props),
                      str_contains(S("<slot"), content), TRUE)

\* VueParser.parse
VueParser_parse(file_path, readable, content) ==
    IF ~readable THEN NoneMetadata
    ELSE vue_metadata(file_path, content, path_stem(file_path),
                      vue_extract_props(content))

---------------------------------------------------------------------------
(* parse_component.py: SvelteParser *)

\* r'export\s+let\s+(\w+)(?::\s*([^=;]+))?(?:\s*=\s*([^;]+))?;?'
R_EXPORT_LET ==
    Lit("export") \o <<Plus(WS)>> \o Lit("let")
        \o <<Plus(WS), Group(1, <<Plus(Word)>>),
             Opt(<<In({":"}), Star(WS), Group(2, <<Plus(NotIn({"=", ";"}))>>)>>),
             Opt(<<Star(WS), In({"="}), Star(WS), Group(3, <<Plus(NotIn({";"}))>>)>>),
             Opt(Lit(";"))>>

\* The body of the loop of SvelteParser._extract_props
svelte_prop(name, prop_type, default) ==
    PropDefinition(name, prop_type, default = NoneStr, default)

svelte_prop_of_match(content, match) ==
    svelte_prop(re_group(content, match, 1),
                IF HasGroup(match, 2)
                THEN str_strip(re_group(content, match, 2)) ELSE S("any"),
                IF HasGroup(match, 3)
                THEN str_strip(re_group(content, match, 3)) ELSE NoneStr)

svelte_props_of_matches(content, matches) ==
    [i \in 1..Len(matches) |-> svelte_prop_of_match(content, matches[i])]

\* SvelteParser._extract_props
svelte_extract_props(content) ==
    svelte_props_of_matches(content, re_finditer(R_EXPORT_LET, 3, content))

\* The return statement of SvelteParser.parse
svelte_metadata(file_path, content, name, props) ==
    ComponentMetadata(name, file_path, "svelte", props,
                      classify_component(name, props),
                      str_contains(S("<slot"), content), TRUE)

\* SvelteParser.parse
SvelteParser_parse(file_path, readable, content) ==
    IF ~readable THEN NoneMetadata
    ELSE svelte_metadata(file_path, content, path_stem(file_path),
                         svelte_extract_props(content))

---------------------------------------------------------------------------
(* parse_component.py: parse_component *)

REACT_EXTENSIONS == {S(".tsx"), S(".jsx"), S(".ts"), S(".js")}

\* Mutant: .vue files handed to the React parser.
parser_for_vue_as_react(extension) ==
    IF extension \in REACT_EXTENSIONS \cup {S(".vue")} THEN "react"
    ELSE IF extension = S(".svelte") THEN "svelte"
    ELSE "unsupported"

\* The if/elif chain on the extension
parser_for(extension) ==
    IF extension \in REACT_EXTENSIONS THEN "react"
    ELSE IF extension = S(".vue") THEN "vue"
    ELSE IF extension = S(".svelte") THEN "svelte"
    ELSE "unsupported"

\* The call of the chosen parser, or `return None`
parse_with(parser, path, readable, content) ==
    CASE parser = "react" -> ReactTypeScriptParser_parse(path, readable, content)
      [] parser = "vue" -> VueParser_parse(path, readable, content)
      [] parser = "svelte" -> SvelteParser_parse(path, readable, content)
      [] OTHER -> NoneMetadata

\* parse_component: the returned value
parse_component(path, readable, content) ==
    parse_with(parser_for(str_lower(path_suffix(path))), path, readable, content)

\* Whether parse_component ends in an open() of the file: each parser opens
\* it first thing, the unsupported branch returns without.
opens_file(path) == parser_for(str_lower(path_suffix(path))) # "unsupported"

---------------------------------------------------------------------------
(* Inputs of the parser calls: component paths and file contents *)

FilePaths ==
    { S("Button.tsx"),
      S("src/ui/IconButton.jsx"),
      S("DataTable.TSX"),
      S("util.js"),
      S("lib.d.ts"),
      S("Nav(1).ts"),
      S("Button(old.tsx"),
      S("v1.2/Tabs.vue"),
      S("Card.svelte"),
      S("README.md"),
      S(".tsx"),
      S("pkg.ts/Makefile") }

FileContents ==
    { S("export default function Button(p: ButtonProps) {}\ninterface ButtonProps {\n  variant: 'primary' | 'secondary';\n  disabled?: boolean;\n  children: React.ReactNode;\n}"),
      S("const Modal = 1;\nfunction Dialog() {}\ntype Props = { open: boolean; onClose: () => void }"),
      S("export const Card: FC = () => null;\ninterface Props {\n  /** Note: shown on top */\n  title: string;\n  /** Note: shown below */\n  text: string;\n}"),
      S("export const useThing = () => 1;\ninterface Nav1Props { a: string; }"),
      S(""),
      S("<script setup lang=\"ts\">\ndefineProps<{ label: string, count?: number }>()\n</script>\n<template><slot/></template>"),
      S("defineProps({ label: { type: String, required: true } })"),
      S("<script>\n  export let name: string;\n  export let onClick: () => void;\n</script>\n<slot />"),
      S("export let count = 0;\nexport let size: string = 'md';") }

---------------------------------------------------------------------------
(* State machine: one call of parse_component on one file *)

InitParse ==
    /\ component_path \in FilePaths
    /\ component_file \in [readable : BOOLEAN, content : FileContents]
    /\ opened = FALSE
    /\ parsed = NoneMetadata
    /\ component_metadata = [props |-> <<>>, component_type |-> "other"]
    /\ called = "none"
    /\ result = <<>>
    /\ NoStory
    /\ NoBulk

Call_parse_component ==
    /\ called = "none"
    /\ called' = "parse_component"
    /\ opened' = opens_file(component_path)
    /\ parsed' = parse_component(component_path, component_file.readable,
                                 component_file.content)
    /\ UNCHANGED <<component_path, component_file, component_metadata, result, story, bulk>>

NextParse == Call_parse_component

SpecParse == InitParse /\ [][NextParse]_vars

---------------------------------------------------------------------------
(* Claims about parse_component *)

SUPPORTED_EXTENSIONS ==
    {S(".tsx"), S(".jsx"), S(".ts"), S(".js"), S(".vue"), S(".svelte")}

Extension == str_lower(path_suffix(component_path))
Parsed == called = "parse_component"
Failed == parsed = NoneMetadata

\* C11: parse_component returns a ComponentMetadata, never the failure
\* value, for every readable file with a supported extension, whatever its
\* content and its name.
ClaimC11_ReadableSupportedParses ==
    (Parsed /\ component_file.readable /\ Extension \in SUPPORTED_EXTENSIONS)
        => ~Failed

\* The framework each supported extension stands for
FrameworkOf(extension) ==
    IF extension = S(".vue") THEN "vue"
    ELSE IF extension = S(".svelte") THEN "svelte"
    ELSE "react"

\* C12: the dispatch of parse_component looks at the extension only: an
\* unsupported extension gives the failure value and the file is not opened;
\* a supported one fixes the framework of the result whatever the content.
ThmC12_DispatchByExtension ==
    Parsed =>
        /\ Extension \notin SUPPORTED_EXTENSIONS => (Failed /\ ~opened)
        /\ (Extension \in SUPPORTED_EXTENSIONS /\ ~Failed)
              => parsed.framework = FrameworkOf(Extension)

\* A .vue file whose content is a React component is parsed as vue.
WitC12_VueFileWithReactContent ==
    /\ Parsed
    /\ Extension = S(".vue")
    /\ str_contains(S("interface ButtonProps"), component_file.content)
    /\ ~Failed
    /\ parsed.framework = "vue"

\* C13: the name of a React component is the identifier found by the first
\* of the rules function, constant, exported function that matches, and the
\* file's base name without extension when none matches.
ThmC13_NameRulesInOrder ==
    (Parsed /\ ~Failed /\ parsed.framework = "react") =>
        LET content == component_file.content
            fn == re_search(R_FUNCTION, 1, content)
            const == re_search(R_CONST, 1, content)
            export == re_search(R_EXPORT, 1, content)
        IN  /\ fn.ok => parsed.name = re_group(content, fn, 1)
            /\ (~fn.ok /\ const.ok) => parsed.name = re_group(content, const, 1)
            /\ (~fn.ok /\ ~const.ok /\ export.ok)
                  => parsed.name = re_group(content, export, 1)
            /\ (~fn.ok /\ ~const.ok /\ ~export.ok)
                  => parsed.name = path_stem(component_path)

\* A constant stands before the function in the text and the function rule
\* still gives the name.
WitC13_FunctionBeatsEarlierConstant ==
    /\ Parsed /\ ~Failed
    /\ parsed.framework = "react"
    /\ str_startswith(component_file.content, S("const Modal"))
    /\ parsed.name = S("Dialog")

\* C15: in every returned ComponentMetadata the prop names are non-empty and
\* pairwise different.
ClaimC15_PropNamesUnique ==
    (Parsed /\ ~Failed) =>
        /\ \A i \in 1..Len(parsed.props) : parsed.props[i].name # <<>>
        /\ \A i, j \in 1..Len(parsed.props) :
              parsed.props[i].name = parsed.props[j].name => i = j

\* The text carries no optionality information: no "?", no `required`, and
\* no "=" other than the one of an arrow "=>".
NoOptionalityInfo(content) ==
    /\ ~str_contains(S("?"), content)
    /\ ~str_contains(S("required"), content)
    /\ \A i \in 1..Len(content) :
          content[i] = "=" => (i < Len(content) /\ content[i + 1] = ">")

\* C16: a prop is required unless the source marks it optional; so every
\* prop extracted from a text without any optionality information is
\* required.
ClaimC16_RequiredUnlessMarked ==
    (Parsed /\ ~Failed /\ NoOptionalityInfo(component_file.content)) =>
        \A i \in 1..Len(parsed.props) : parsed.props[i].required

---------------------------------------------------------------------------
(* State machine: one call of classify_component on one name and props *)

ClassifyNames ==
    { S("Button"), S("IconButton"), S("RadioButton"), S("SubmitBtn"),
      S("TextInput"), S("Textarea"), S("Dropdown"), S("Combobox"),
      S("Checkbox"), S("CheckList"), S("RadioGroup"), S("Toggle"),
      S("Card"), S("Dialog"), S("Drawer"), S("Grid"), S("DataTable"),
      S("TodoList"), S("Chart"), S("Tag"), S("Avatar"), S("Alert"),
      S("Snackbar"), S("Spinner"), S("Navbar"), S("Tabs"), S("Breadcrumb"),
      S("Pager"), S("Widget"), S("Hero") }

ClassifyProps ==
    { <<>>,
      <<PropDefinition(S("table"), S("'button' | 'card'"), TRUE, NoneStr)>> }

InitClassify ==
    /\ component_metadata \in [name : ClassifyNames, props : ClassifyProps]
    /\ called = "none"
    /\ result = <<>>
    /\ NoFile
    /\ NoStory
    /\ NoBulk

Call_classify_component ==
    /\ called = "none"
    /\ called' = "classify_component"
    /\ result' = classify_component(component_metadata.name,
                                    component_metadata.props)
    /\ UNCHANGED <<component_metadata, files, story, bulk>>

NextClassify == Call_classify_component

SpecClassify == InitClassify /\ [][NextClassify]_vars

\* The closed set of categories
Categories == {CLASSIFY_CHECKS[k].category : k \in 1..Len(CLASSIFY_CHECKS)} \cup {"other"}

\* The checks of which a keyword occurs in the lower-cased name
MatchingChecks(name) ==
    {k \in 1..Len(CLASSIFY_CHECKS) :
        any_term_in(CLASSIFY_CHECKS[k].terms, str_lower(name))}

any_hint_in(hints, s) == \E i \in 1..Len(hints) : str_contains(hints[i], s)

RATIO_HINTS == <<S("opacity"), S("progress"), S("percent"), S("ratio")>>
DIMENSION_HINTS ==
    <<S("size"), S("width"), S("height"), S("padding"), S("margin"), S("gap")>>
COLOR_HINTS == <<S("color"), S("background"), S("bg"), S("fill"), S("stroke")>>
FILE_NAMES == <<S("file"), S("files"), S("src"), S("source")>>

CONTROL_BOOLEAN == S("{ control: 'boolean' }")
CONTROL_RANGE_UNIT == S("{ control: { type: 'range', min: 0, max: 1, step: 0.1 } }")
CONTROL_RANGE_HUNDRED == S("{ control: { type: 'range', min: 0, max: 100, step: 1 } }")
CONTROL_NUMBER == S("{ control: 'number' }")
CONTROL_COLOR == S("{ control: 'color' }")
CONTROL_DATE == S("{ control: 'date' }")
CONTROL_OBJECT == S("{ control: 'object' }")
CONTROL_FILE_IMAGE == S("{ control: { type: 'file', accept: 'image/*' } }")
CONTROL_FILE == S("{ control: 'file' }")
CONTROL_TEXT == S("{ control: 'text' }")
CONTROL_DISABLED == S("{ control: false }")

\* r"'([^']+)'"
R_QUOTED == <<In({"'"}), Group(1, <<Plus(NotIn({"'"}))>>), In({"'"})>>

\* re.findall(r"'([^']+)'", s), given the matches of finditer
groups_of(s, found) == [i \in 1..Len(found) |-> re_group(s, found[i], 1)]
re_findall_single_quoted(s) == groups_of(s, re_finditer(R_QUOTED, 1, s))

\* [f"'{opt}'" for opt in matches]
quoted_options(matches) ==
    [i \in 1..Len(matches) |-> S("'") \o matches[i] \o S("'")]

\* f"{{ options: [{options_str}], control: {{ type: '<kind>' }} }}"
control_options(matches, kind) ==
    S("{ options: [") \o str_join(S(", "), quoted_options(matches))
        \o S("], control: { type: '") \o kind \o S("' } }")

\* f"{{ action: '{prop.name}' }}"
control_action(name) == S("{ action: '") \o name \o S("' }")

\* The rules after the quoted-union rule: function, string, renderable, None
control_after_union(prop, prop_type, prop_name) ==
    IF \/ str_contains(S("function"), prop_type)
       \/ str_contains(S("=>"), prop_type)
       \/ str_startswith(prop_name, S("on"))
    THEN control_action(prop.name)
    ELSE IF str_contains(S("string"), prop_type) THEN CONTROL_TEXT
    ELSE IF \/ str_contains(S("react"), prop_type)
            \/ str_contains(S("node"), prop_type)
            \/ str_contains(S("element"), prop_type)
    THEN CONTROL_DISABLED
    ELSE NoneStr

\* The quoted-union rule, given the quoted literals found in the type
control_of_union(matches, prop, prop_type, prop_name) ==
    IF Len(matches) = 0 THEN control_after_union(prop, prop_type, prop_name)
    ELSE IF Len(matches) <= 4 THEN control_options(matches, S("radio"))
    ELSE control_options(matches, S("select"))

\* The rules after the number rule: colour, date, object, array, file, union
control_after_number(prop, prop_type, prop_name) ==
    IF any_hint_in(COLOR_HINTS, prop_name) THEN CONTROL_COLOR
    ELSE IF \/ str_endswith(prop_name, S("date"))
            \/ str_endswith(prop_name, S("time"))
            \/ str_contains(S("timestamp"), prop_name)
    THEN CONTROL_DATE
    ELSE IF \/ str_contains(S("object"), prop_type)
            \/ str_contains(S("record"), prop_type)
            \/ str_contains(S("{"), prop.type)
    THEN CONTROL_OBJECT
    ELSE IF str_contains(S("array"), prop_type) \/ str_contains(S("[]"), prop.type)
    THEN CONTROL_OBJECT
    ELSE IF str_contains(S("file"), prop_type) \/ InList(prop_name, FILE_NAMES)
    THEN IF \/ str_contains(S("image"), prop_name)
            \/ str_contains(S("avatar"), prop_name)
            \/ str_contains(S("photo"), prop_name)
         THEN CONTROL_FILE_IMAGE
         ELSE CONTROL_FILE
    ELSE IF str_contains(S("|"), prop.type) /\ str_contains(S("'"), prop.type)
    THEN control_of_union(re_findall_single_quoted(prop.type),
                          prop, prop_type, prop_name)
    ELSE control_after_union(prop, prop_type, prop_name)

\* The number rule with its range hints
control_of_number(prop_name) ==
    IF any_hint_in(RATIO_HINTS, prop_name) THEN CONTROL_RANGE_UNIT
    ELSE IF any_hint_in(DIMENSION_HINTS, prop_name) THEN CONTROL_RANGE_HUNDRED
    ELSE CONTROL_NUMBER

\* _infer_control_type with prop_type = prop.type.lower() and
\* prop_name = prop.name.lower(); None is NoneStr
control_of(prop, prop_type, prop_name) ==
    IF str_contains(S("boolean"), prop_type) THEN CONTROL_BOOLEAN
    ELSE IF str_contains(S("number"), prop_type) THEN control_of_number(prop_name)
    ELSE control_after_number(prop, prop_type, prop_name)

infer_control_type(prop) == control_of(prop, str_lower(prop.type), str_lower(prop.name))

---------------------------------------------------------------------------
(* StoryGenerator: argTypes, variant stories, default args *)

\* _metadata_to_dict
metadata_to_dict(md) ==
    [name |-> md.name, component_type |-> md.component_type,
     props |-> [i \in 1..Len(md.props) |->
                   [name |-> md.props[i].name, type |-> md.props[i].type,
                    required |-> md.props[i].required,
                    default_value |-> md.props[i].default_value]]]

\* The loop body of _generate_arg_types, given the inferred control
arg_type_lines_of(prop, control) ==
    IF prop.name = S("children") \/ control = NoneStr THEN <<>>
    ELSE <<S("    ") \o prop.name \o S(": ") \o control \o S(",")>>

RECURSIVE arg_type_lines(_)
arg_type_lines(props) ==
    IF Len(props) = 0 THEN <<>>
    ELSE arg_type_lines_of(Head(props), infer_control_type(Head(props)))
             \o arg_type_lines(Tail(props))

\* _generate_arg_types
generate_arg_types(props) == str_join(S("\n"), arg_type_lines(props))

\* f"    children: '{metadata.name}',"
children_line(md) == S("    children: '") \o md.name \o S("',")

\* Python values a caller may put in Variant.args besides those of the
\* detector: the bool False and an int
PyFalse == <<"bool", FALSE>>
PyInt(n) == <<"int", n>>

\* str(n) of an int that is not negative
RECURSIVE int_str(_)
int_str(n) ==
    IF n < 10 THEN <<S("0123456789")[n + 1]>>
    ELSE int_str(n \div 10) \o <<S("0123456789")[(n % 10) + 1]>>

\* One line of a variant's args: a str is quoted, a bool is lower-cased,
\* any other value is formatted as it is
variant_arg_line(key, value) ==
    IF value[1] = "str" THEN S("    ") \o key \o S(": '") \o value[2] \o S("',")
    ELSE IF value[1] = "bool"
    THEN S("    ") \o key \o S(": ")
            \o (IF value[2] THEN S("true") ELSE S("false")) \o S(",")
    ELSE S("    ") \o key \o S(": ") \o int_str(value[2]) \o S(",")

\* variant.args.items(); the detector builds dicts of at most one key
dict_items(args) ==
    IF DOMAIN args = {} THEN <<>>
    ELSE <<<<CHOOSE k \in DOMAIN args : TRUE,
             args[CHOOSE k \in DOMAIN args : TRUE]>>>>

\* Mutant: the children placeholder is added whenever has_children is true.
variant_arg_lines_children_always(md, args, items) ==
    [i \in 1..Len(items) |-> variant_arg_line(items[i][1], items[i][2])]
        \o (IF md.has_children THEN <<children_line(md)>> ELSE <<>>)

\* The args lines of one variant story
variant_arg_lines(md, args, items) ==
    [i \in 1..Len(items) |-> variant_arg_line(items[i][1], items[i][2])]
        \o (IF md.has_children /\ S("children") \notin DOMAIN args
            THEN <<children_line(md)>> ELSE <<>>)

\* The f-string of one story
story_text(name, args_str) ==
    S("\nexport const ") \o name \o S(": Story = {\n  args: {\n")
        \o args_str \o S("\n  },\n};\n")

variant_story(md, variant) ==
    story_text(variant.name,
               str_join(S("\n"),
                        variant_arg_lines(md, variant.args, dict_items(variant.args))))

\* _generate_variant_stories
generate_variant_stories(md, variants) ==
    str_join(S("\n"), [i \in 1..Len(variants) |-> variant_story(md, variants[i])])

\* Mutant: a no-op callback for every prop whose name starts with "on".
default_callback_lines_all(md) ==
    [i \in 1..Len(SelectSeq(md.props, LAMBDA p : str_startswith(p.name, S("on")))) |->
        S("    ") \o SelectSeq(md.props, LAMBDA p : str_startswith(p.name, S("on")))[i].name
            \o S(": () => {},")]

\* The onClick line: for buttons that declare onClick
default_callback_lines(md) ==
    IF md.component_type = "button"
         /\ \E i \in 1..Len(md.props) : md.props[i].name = S("onClick")
    THEN <<S("    onClick: () => {},")>>
    ELSE <<>>

\* _generate_default_args
generate_default_args(md) ==
    str_join(S("\n"),
             (IF md.has_children THEN <<children_line(md)>> ELSE <<>>)
                 \o default_callback_lines(md))

---------------------------------------------------------------------------
(* State machine: one call of one emitter function on one metadata *)

ControlProp(name, type) == PropDefinition(S(name), S(type), TRUE, NoneStr)

OnSaveProp == ControlProp("onSave", "() => void")
ChildrenProp == ControlProp("children", "React.ReactNode")

ControlProps ==
    { ControlProp("disabled", "boolean"),
      ControlProp("onToggle", "(checked: boolean) => void"),
      ControlProp("count", "number"),
      ControlProp("opacity", "number"),
      ControlProp("width", "number"),
      ControlProp("backgroundColor", "string"),
      ControlProp("startDate", "string"),
      ControlProp("style", "object"),
      ControlProp("items", "string[]"),
      ControlProp("avatarFile", "File"),
      ControlProp("src", "string"),
      ControlProp("variant", "'primary' | 'secondary'"),
      ControlProp("tone", "'a' | 'b' | 'c' | 'd' | 'e'"),
      ControlProp("onClick", "() => void"),
      ControlProp("handler", "Function"),
      ControlProp("label", "string"),
      ControlProp("icon", "ReactNode"),
      ControlProp("innerRef", "unknown"),
      ControlProp("payload", "any"),
      OnSaveProp,
      ChildrenProp }

ControlPropLists ==
    {<<>>} \cup {<<p>> : p \in ControlProps}
           \cup {<<p, OnSaveProp>> : p \in ControlProps}
           \cup {<<ChildrenProp, p>> : p \in ControlProps}

\* The metadata the React parser builds for a component of that name and
\* props (has_children follows from the props), and the one the Vue parser
\* builds (has_children follows from the template, not from the props).
EmitterMetadata ==
    {ComponentMetadata(name, name \o S(".tsx"), "react", props,
                       classify_component(name, props),
                       has_children_prop(props), TRUE) :
        name \in {S("Button"), S("SaveBar")}, props \in ControlPropLists}
    \cup
    {ComponentMetadata(S("Button"), S("Button.vue"), "vue", props,
                       classify_component(S("Button"), props), TRUE, TRUE) :
        props \in ControlPropLists}

InitEmitter ==
    /\ parsed \in EmitterMetadata
    /\ component_path = parsed.file_path
    /\ component_file = [readable |-> TRUE, content |-> <<>>]
    /\ opened = TRUE
    /\ component_metadata = metadata_to_dict(parsed)
    /\ called = "none"
    /\ result = <<>>
    /\ NoStory
    /\ NoBulk

Call_infer_control_type ==
    /\ called = "none"
    /\ \E i \in 1..Len(parsed.props) :
          result' = [prop |-> parsed.props[i],
                     control |-> infer_control_type(parsed.props[i])]
    /\ called' = "_infer_control_type"
    /\ UNCHANGED <<component_metadata, files, story, bulk>>

Call_generate_arg_types ==
    /\ called = "none"
    /\ called' = "_generate_arg_types"
    /\ result' = generate_arg_types(parsed.props)
    /\ UNCHANGED <<component_metadata, files, story, bulk>>

\* Variants a caller writes by hand
WideVariant ==
    Variant(S("Wide"), S("Wide layout"), Dict1(S("width"), PyInt(120)), 1)
OffVariant ==
    Variant(S("Off"), S("Switched off"), Dict1(S("disabled"), PyFalse), 2)
WithTextVariant ==
    Variant(S("WithText"), S("Own children"), Dict1(S("children"), PyStr(S("Hi"))), 2)

\* The variants _generate_variant_stories is called with: the detector's,
\* or a list of the caller
VariantInputs(md) ==
    {detect_variants(md), <<WideVariant, WithTextVariant>>, <<OffVariant>>}

Call_generate_variant_stories ==
    /\ called = "none"
    /\ called' = "_generate_variant_stories"
    /\ given_variants' \in VariantInputs(component_metadata)
    /\ result' = generate_variant_stories(parsed, given_variants')
    /\ UNCHANGED <<component_metadata, files, pc, testing_level, output_path,
                   templates, output_file, story_content, returned, printed,
                   history, bulk>>

Call_generate_default_args ==
    /\ called = "none"
    /\ called' = "_generate_default_args"
    /\ result' = generate_default_args(parsed)
    /\ UNCHANGED <<component_metadata, files, story, bulk>>

NextEmitter ==
    \/ Call_infer_control_type
    \/ Call_generate_arg_types
    \/ Call_generate_variant_stories
    \/ Call_generate_default_args

SpecEmitter == InitEmitter /\ [][NextEmitter]_vars

---------------------------------------------------------------------------
(* Claims about the emitter functions *)

\* The rules of the claimed precedence, numbered 1..10.  A rule on the type
\* asks what the prop's type is; a rule on the name asks for a hint in it.
IsNumberTyped(type) == str_lower(str_strip(type)) = S("number")

RuleMatches(k, prop, type, name) ==
    CASE k = 1 -> IsBooleanTyped(prop.type)
      [] k = 2 -> IsNumberTyped(prop.type)
      [] k = 3 -> any_hint_in(COLOR_HINTS, name)
      [] k = 4 -> \/ str_endswith(name, S("date"))
                  \/ str_endswith(name, S("time"))
                  \/ str_contains(S("timestamp"), name)
      [] k = 5 -> \/ str_contains(S("object"), type)
                  \/ str_contains(S("record"), type)
                  \/ str_contains(S("{"), type)
                  \/ str_contains(S("array"), type)
                  \/ str_contains(S("[]"), type)
      [] k = 6 -> str_contains(S("file"), type) \/ InList(name, FILE_NAMES)
      [] k = 7 -> /\ str_contains(S("|"), type)
                  /\ Len(re_findall_single_quoted(prop.type)) > 0
      [] k = 8 -> \/ str_contains(S("function"), type)
                  \/ str_contains(S("=>"), type)
                  \/ str_startswith(name, S("on"))
      [] k = 9 -> str_contains(S("string"), type)
      [] k = 10 -> \/ str_contains(S("react"), type)
                   \/ str_contains(S("node"), type)
                   \/ str_contains(S("element"), type)

RuleControl(k, prop, name) ==
    CASE k = 1 -> CONTROL_BOOLEAN
      [] k = 2 -> IF any_hint_in(RATIO_HINTS, name) THEN CONTROL_RANGE_UNIT
                  ELSE IF any_hint_in(DIMENSION_HINTS, name)
                  THEN CONTROL_RANGE_HUNDRED
                  ELSE CONTROL_NUMBER
      [] k = 3 -> CONTROL_COLOR
      [] k = 4 -> CONTROL_DATE
      [] k = 5 -> CONTROL_OBJECT
      [] k = 6 -> IF \/ str_contains(S("image"), name)
                     \/ str_contains(S("avatar"), name)
                     \/ str_contains(S("photo"), name)
                  THEN CONTROL_FILE_IMAGE ELSE CONTROL_FILE
      [] k = 7 -> control_options(re_findall_single_quoted(prop.type),
                                  IF Len(re_findall_single_quoted(prop.type)) <= 4
                                  THEN S("radio") ELSE S("select"))
      [] k = 8 -> control_action(prop.name)
      [] k = 9 -> CONTROL_TEXT
      [] k = 10 -> CONTROL_DISABLED

FirstRuleControl(prop, type, name) ==
    LET hits == {k \in 1..10 : RuleMatches(k, prop, type, name)}
    IN  IF hits = {} THEN NoneStr
        ELSE RuleControl(CHOOSE k \in hits : \A m \in hits : k <= m, prop, name)

\* C19: _infer_control_type returns the control of the first rule, in the
\* stated precedence, that matches the prop: boolean type, numeric type,
\* colour name hint, date name, object/array-shaped type, file-like name or
\* type, literal union, function type or "on" name, string type, renderable
\* type; a lower rule's control only when no higher rule matches.
ClaimC19_FirstMatchingRule ==
    called = "_infer_control_type" =>
        result.control = FirstRuleControl(result.prop, str_lower(result.prop.type),
                                          str_lower(result.prop.name))

\* The metadata declares the prop onSave: () => void
DeclaresOnSave == \E i \in 1..Len(parsed.props) : parsed.props[i] = OnSaveProp

\* C20: a prop onSave of type `() => void` gets the action-recording control
\* and no editable default value: it is named neither in the default
\* arguments nor in the args of any variant story.
ThmC20_CallbackNoDefault ==
    DeclaresOnSave =>
        /\ (called = "_infer_control_type" /\ result.prop = OnSaveProp)
              => result.control = S("{ action: 'onSave' }")
        /\ called = "_generate_default_args" => ~str_contains(S("onSave"), result)
        /\ called = "_generate_variant_stories" => ~str_contains(S("onSave"), result)

\* The default arguments of a button with onClick and onSave: the no-op
\* onClick is there, onSave is not.
WitC20_ButtonWithOnSave ==
    /\ DeclaresOnSave
    /\ called = "_generate_default_args"
    /\ parsed.component_type = "button"
    /\ str_contains(S("onClick: () => {},"), result)
    /\ ~str_contains(S("onSave"), result)

---------------------------------------------------------------------------
(* StoryGenerator: lookup tables and _generate_story_content *)

INTERACTION_TESTS ==
       "button" :> S("\n    const button = canvas.getByRole('button');\n    await expect(button).toBeInTheDocument();\n    await userEvent.click(button);\n    if (args.onClick) {\n      await expect(args.onClick).toHaveBeenCalled();\n    }\n    await expect(button).not.toBeDisabled();\n        ")
    @@ "input" :> S("\n    const input = canvas.getByRole('textbox');\n    await expect(input).toBeInTheDocument();\n    await userEvent.type(input, 'Test input');\n    await expect(input).toHaveValue('Test input');\n        ")
    @@ "checkbox" :> S("\n    const checkbox = canvas.getByRole('checkbox');\n    await expect(checkbox).toBeInTheDocument();\n    await userEvent.click(checkbox);\n    await expect(checkbox).toBeChecked();\n        ")
    @@ "select" :> S("\n    const select = canvas.getByRole('combobox');\n    await expect(select).toBeInTheDocument();\n    await userEvent.selectOptions(select, 'option1');\n        ")

A11Y_RULES ==
       "button" :> <<S("{ id: 'button-name', enabled: true }"), S("{ id: 'color-contrast', enabled: true }")>>
    @@ "input" :> <<S("{ id: 'label', enabled: true }"), S("{ id: 'color-contrast', enabled: true }")>>
    @@ "modal" :> <<S("{ id: 'aria-dialog-name', enabled: true }"), S("{ id: 'focus-trap', enabled: true }")>>

A11Y_TEST_CODE ==
       "button" :> S("\n    const button = canvas.getByRole('button');\n    button.focus();\n    await expect(button).toHaveFocus();\n    await userEvent.keyboard('{Enter}');\n        ")
    @@ "input" :> S("\n    const input = canvas.getByRole('textbox');\n    await expect(input).toHaveAccessibleName();\n    input.focus();\n    await expect(input).toHaveFocus();\n        ")

\* dict.get(key, default)
dict_get(d, key, default) == IF key \in DOMAIN d THEN d[key] ELSE default

\* s.find(old) + 1: the first position where old occurs, 0 when it does not
first_index(s, old) ==
    LET at == {i \in 1..(Len(s) - Len(old) + 1) : SubSeq(s, i, i + Len(old) - 1) = old}
    IN  IF at = {} THEN 0 ELSE CHOOSE i \in at : \A j \in at : i <= j

\* s.replace(old, new): every occurrence, left to right, not overlapping
RECURSIVE str_replace(_, _, _)
RECURSIVE replace_at(_, _, _, _)
replace_at(i, s, old, new) ==
    IF i = 0 THEN s
    ELSE SubSeq(s, 1, i - 1) \o new
            \o str_replace(SubSeq(s, i + Len(old), Len(s)), old, new)

str_replace(s, old, new) == replace_at(first_index(s, old), s, old, new)

TEMPLATE_DIR == S("skills/story-generation/templates/")

\* f"{metadata.framework}-{testing_level}.template"
template_name(framework, level) == S(framework) \o S("-") \o level \o S(".template")

\* The template file read: the specific one when it exists, else the
\* framework's basic one, None when that is missing too.
template_path(md, level, dir) ==
    IF template_name(md.framework, level) \in dir
    THEN template_name(md.framework, level)
    ELSE IF template_name(md.framework, S("basic")) \in dir
    THEN template_name(md.framework, S("basic"))
    ELSE NoneStr

\* The text of a template file: a header naming the file, then the
\* placeholders; a basic template has no test sections.
BASIC_TEMPLATE_BODY ==
    S("import { {{COMPONENT_NAME}} } from './{{COMPONENT_NAME}}';\nconst meta = {\n  title: '{{STORY_TITLE}}',\n  argTypes: {\n{{ARG_TYPES}}\n  },\n  args: {\n{{DEFAULT_ARGS}}\n  },\n};\n{{VARIANT_STORIES}}\n")

TEST_TEMPLATE_BODY ==
    S("export const Interaction = {\n  play: async ({ canvasElement, args }) => {\n    {{INTERACTION_TEST_CODE}}\n  },\n};\nexport const Accessibility = {\n  parameters: { a11y: { config: { rules: [\n          {{A11Y_RULES}}\n  ] } } },\n  play: async ({ canvasElement }) => {\n    {{A11Y_TEST_CODE}}\n  },\n};\n")

template_text(name) ==
    S("// ") \o name \o S("\n") \o BASIC_TEMPLATE_BODY
        \o (IF str_endswith(name, S("-basic.template")) THEN <<>>
            ELSE TEST_TEMPLATE_BODY)

\* The eight replacements of _generate_story_content, in their order
replace_placeholders(template, md, variants) ==
    str_replace(str_replace(str_replace(str_replace(
    str_replace(str_replace(str_replace(str_replace(template,
        S("{{COMPONENT_NAME}}"), md.name),
        S("{{STORY_TITLE}}"), S("Components/") \o md.name),
        S("{{ARG_TYPES}}"), generate_arg_types(md.props)),
        S("{{VARIANT_STORIES}}"), generate_variant_stories(md, variants)),
        S("{{DEFAULT_ARGS}}"), generate_default_args(md)),
        S("{{INTERACTION_TEST_CODE}}"),
            str_strip(dict_get(INTERACTION_TESTS, md.component_type,
                               S("// Component-specific interaction test")))),
        S("{{A11Y_RULES}}"),
            str_join(S(",\n          "),
                     dict_get(A11Y_RULES, md.component_type,
                              <<S("{ id: 'color-contrast', enabled: true }")>>))),
        S("{{A11Y_TEST_CODE}}"),
            str_strip(dict_get(A11Y_TEST_CODE, md.component_type,
                               S("// Component-specific accessibility test"))))

\* _generate_story_content, given the template file selected
story_content_from(path, md, variants) ==
    IF path = NoneStr THEN <<>>
    ELSE replace_placeholders(template_text(path), md, variants)

generate_story_content(md, variants, level, dir) ==
    story_content_from(template_path(md, level, dir), md, variants)

Message(stream, text) == [stream |-> stream, text |-> text]

\* What _generate_story_content prints
template_messages(md, level, dir) ==
    IF template_path(md, level, dir) = NoneStr
    THEN <<Message("stderr", S("Template not found: ") \o TEMPLATE_DIR
                                \o template_name(md.framework, S("basic")))>>
    ELSE <<>>

---------------------------------------------------------------------------
(* State machine: one run of StoryGenerator.generate_story *)

StoryPaths ==
    {S("Button.tsx"), S("v1.2/Tabs.vue"), S("README.md"),
     S("{{COMPONENT_NAME}}.vue")}

StoryContents ==
    { S("export default function Button(p: ButtonProps) {}\ninterface ButtonProps {\n  variant: 'primary' | 'secondary';\n  disabled?: boolean;\n  onClick: () => void;\n  children: React.ReactNode;\n}"),
      S("const Modal = 1;\nfunction Dialog() {}\ntype Props = { open: boolean; onClose: () => void }"),
      S("<script setup lang=\"ts\">\ndefineProps<{ label: string, count?: number }>()\n</script>\n<template><slot/></template>") }

TestingLevels == {S("full"), S("basic")}

\* The template files TEMPLATE_DIR may hold
TemplateFiles ==
    {template_name("react", S("full")), template_name("react", S("basic")),
     template_name("vue", S("basic"))}

OutputPaths == {NoneStr, S("stories/Button.stories.tsx")}

\* The file at the output path before the run: absent, or an earlier story
OutputFiles == {NoneStr, S("// written by hand\n")}

InitStory ==
    /\ component_path \in StoryPaths
    /\ component_file \in [readable : BOOLEAN, content : StoryContents]
    /\ opened = FALSE
    /\ parsed = NoneMetadata
    /\ component_metadata = [props |-> <<>>, component_type |-> "other"]
    /\ called = "none"
    /\ result = <<>>
    /\ pc = "parse"
    /\ testing_level \in TestingLevels
    /\ output_path \in OutputPaths
    /\ templates \in SUBSET TemplateFiles
    /\ output_file \in (IF output_path = NoneStr THEN {NoneStr} ELSE OutputFiles)
    /\ story_content = <<>>
    /\ returned = NoneStr
    /\ printed = <<>>
    /\ given_variants = <<>>
    /\ history = <<>>
    /\ NoBulk

\* What a finished run leaves: the value returned, the file at the output path
RunOutcome(value, file) == [returned |-> value, output_file |-> file]

\* Mutant: the file is opened for appending.
written_file_appended(old, text) == IF old = NoneStr THEN text ELSE old \o text

\* open(output_file, "w") and f.write(text): the file holds the text alone
written_file(old, text) == text

\* Mutant: the `if not metadata` test of line 104 dropped.
stage_after_parse_goes_on(md) == "detect"

\* Where generate_story goes after line 103: out through the early return of
\* lines 104-106 when the parser gave None, on to line 109 otherwise
stage_after_parse(md) == IF md = NoneMetadata THEN "done" ELSE "detect"

\* metadata = parse_component(component_path); if not metadata: return None
Step_parse ==
    /\ pc = "parse"
    /\ opened' = opens_file(component_path)
    /\ parsed' = parse_component(component_path, component_file.readable,
                                 component_file.content)
    /\ IF parsed' = NoneMetadata
       THEN /\ printed' = Append(printed,
                    Message("stderr", S("Failed to parse component: ")
                                          \o component_path))
            /\ history' = Append(history, RunOutcome(NoneStr, output_file))
       ELSE /\ printed' = printed
            /\ history' = history
    /\ pc' = stage_after_parse(parsed')
    /\ UNCHANGED <<detector, component_path, component_file, testing_level, given_variants,
                   output_path, templates, output_file, story_content, returned, bulk>>

\* Mutant: a stage pops the last prop off the metadata it was handed.
metadata_left_by_stage_popped(md) ==
    [md EXCEPT !.props = SubSeq(md.props, 1, Len(md.props) - 1)]

\* The metadata object after a stage was handed it: _metadata_to_dict
\* copies its fields into new dicts, the detector works on that copy and
\* sorts its own list, the emitter functions only read
metadata_left_by_stage(md) == md

\* metadata_dict = _metadata_to_dict(metadata); variants = detect_variants(..)
Step_detect ==
    /\ pc = "detect"
    /\ component_metadata' = metadata_to_dict(parsed)
    /\ result' = detect_variants(component_metadata')
    /\ parsed' = metadata_left_by_stage(parsed)
    /\ pc' = "generate"
    /\ UNCHANGED <<called, component_path, component_file, opened, testing_level, given_variants, history, output_path, templates,
                   output_file, story_content, returned, printed, bulk>>

\* story_content = _generate_story_content(metadata, variants, testing_level)
Step_generate ==
    /\ pc = "generate"
    /\ story_content' = generate_story_content(parsed, result, testing_level,
                                               templates)
    /\ printed' = printed \o template_messages(parsed, testing_level, templates)
    /\ parsed' = metadata_left_by_stage(parsed)
    /\ pc' = IF output_path # NoneStr THEN "write" ELSE "return"
    /\ UNCHANGED <<detector, component_path, component_file, opened, testing_level, given_variants, history, output_path, templates,
                   output_file, returned, bulk>>

\* if output_path: mkdir, open(output_file, "w"), write, print (the
\* message without its leading check mark)
Step_write ==
    /\ pc = "write"
    /\ output_file' = written_file(output_file, story_content)
    /\ printed' = Append(printed,
            Message("stdout", S("Story generated: ") \o output_path))
    /\ pc' = "return"
    /\ UNCHANGED <<detector, files, testing_level, given_variants, history, output_path, templates,
                   story_content, returned, bulk>>

\* return story_content
Step_return ==
    /\ pc = "return"
    /\ returned' = story_content
    /\ pc' = "done"
    /\ history' = Append(history, RunOutcome(story_content, output_file))
    /\ UNCHANGED <<detector, files, testing_level, given_variants, output_path, templates,
                   output_file, story_content, printed, bulk>>

MaxRuns == 2

\* The caller runs generate_story again, with the same arguments
Step_again ==
    /\ pc = "done"
    /\ Len(history) < MaxRuns
    /\ pc' = "parse"
    /\ returned' = NoneStr
    /\ UNCHANGED <<detector, files, testing_level, given_variants, history,
                   output_path, templates, output_file, story_content, printed, bulk>>

NextStory ==
    \/ Step_parse
    \/ Step_detect
    \/ Step_generate
    \/ Step_write
    \/ Step_return
    \/ Step_again

SpecStory == InitStory /\ [][NextStory]_vars

---------------------------------------------------------------------------
(* Claims about generate_story *)

\* _generate_story_content has run on a parsed component
ContentGenerated == pc \in {"write", "return", "done"} /\ parsed # NoneMetadata

RequestedTemplate == template_name(parsed.framework, testing_level)
BasicTemplate == template_name(parsed.framework, S("basic"))

TemplateMissing ==
    RequestedTemplate \notin templates /\ BasicTemplate \notin templates

\* The text made from one template file
StoryFrom(name) == replace_placeholders(template_text(name), parsed, result)

\* C17: the story is made from the template of the framework and the
\* requested level when that file exists, otherwise from the framework's
\* basic template; when neither exists the run ends with an outcome that
\* is not a generated text.
ClaimC17_TemplateOrNotFound ==
    ContentGenerated =>
        IF RequestedTemplate \in templates
        THEN story_content = StoryFrom(RequestedTemplate)
        ELSE IF BasicTemplate \in templates
        THEN story_content = StoryFrom(BasicTemplate)
        ELSE pc = "done" => returned = NoneStr

\* The step that writes the file at the output path
WritesOutput == output_file' # output_file \/ (pc = "write" /\ pc' = "return")

\* C18: the file at the output path is written only after parsing, variant
\* detection and text generation have completed, and only when a template
\* was found: with the template and its basic fallback missing no file is
\* created or overwritten.
ClaimC18_WriteLastAndOnlyOnSuccess ==
    [][WritesOutput =>
          /\ parsed # NoneMetadata
          /\ component_metadata = metadata_to_dict(parsed)
          /\ result = detect_variants(component_metadata)
          /\ story_content = generate_story_content(parsed, result,
                                                    testing_level, templates)
          /\ ~TemplateMissing
          /\ output_file' = story_content]_vars

---------------------------------------------------------------------------
(* Claims about the emitted blocks *)

\* The lines of a block of text; an empty block has none
LinesOf(text) == IF text = <<>> THEN <<>> ELSE str_split(text, "\n")

NonChildrenProps == SelectSeq(parsed.props, LAMBDA p : p.name # S("children"))

\* A line "    <name>: <descriptor>," with a descriptor that is not empty
IsDescriptorLine(line, name) ==
    /\ str_startswith(line, S("    ") \o name \o S(": "))
    /\ str_endswith(line, S(","))
    /\ Len(line) > Len(name) + 7

\* C21: the arg-types block has exactly one control descriptor line for
\* every prop other than children, in prop order, whatever the prop's type
\* text, and no line for children.
ClaimC21_DescriptorPerProp ==
    called = "_generate_arg_types" =>
        /\ Len(LinesOf(result)) = Len(NonChildrenProps)
        /\ \A i \in 1..Len(NonChildrenProps) :
              i <= Len(LinesOf(result))
                 => IsDescriptorLine(LinesOf(result)[i], NonChildrenProps[i].name)

\* The literal of a value: true/false, a quoted string, a bare number
LiteralOf(value) ==
    CASE value[1] = "bool" -> IF value[2] THEN S("true") ELSE S("false")
      [] value[1] = "str" -> S("'") \o value[2] \o S("'")
      [] value[1] = "int" -> int_str(value[2])

\* The lines between "args: {" and "}" of the block of one variant
ExpectedArgLines(v) ==
    [i \in 1..Len(dict_items(v.args)) |->
        S("    ") \o dict_items(v.args)[i][1] \o S(": ")
            \o LiteralOf(dict_items(v.args)[i][2]) \o S(",")]
      \o (IF parsed.has_children /\ S("children") \notin DOMAIN v.args
          THEN <<S("    children: '") \o parsed.name \o S("',")>>
          ELSE <<>>)

ExpectedBlock(v) ==
    S("\nexport const ") \o v.name \o S(": Story = {\n  args: {\n")
        \o str_join(S("\n"), ExpectedArgLines(v)) \o S("\n  },\n};\n")

\* C22: the text has one story block per variant, in variant order; each
\* arg is a key/value pair with true/false for a boolean, a quoted literal
\* for a string and a bare literal for a number; the children placeholder
\* is there exactly when has_children is true and the variant's args have
\* no children.
ThmC22_BlockPerVariant ==
    called = "_generate_variant_stories" =>
        result = str_join(S("\n"),
                          [i \in 1..Len(given_variants) |->
                              ExpectedBlock(given_variants[i])])

\* A component with children rendered with a number arg and with a variant
\* that sets its own children.
WitC22_OwnChildrenKept ==
    /\ called = "_generate_variant_stories"
    /\ parsed.has_children
    /\ given_variants = <<WideVariant, WithTextVariant>>
    /\ str_contains(S("    width: 120,\n    children: 'Button',"), result)
    /\ str_contains(S("args: {\n    children: 'Hi',\n  }"), result)

\* The placeholders _generate_story_content replaces
PLACEHOLDERS ==
    {S("{{COMPONENT_NAME}}"), S("{{STORY_TITLE}}"), S("{{ARG_TYPES}}"),
     S("{{VARIANT_STORIES}}"), S("{{DEFAULT_ARGS}}"),
     S("{{INTERACTION_TEST_CODE}}"), S("{{A11Y_RULES}}"),
     S("{{A11Y_TEST_CODE}}")}

\* generate_story has returned the text made from a template
EmissionDone == pc = "done" /\ parsed # NoneMetadata /\ ~TemplateMissing

\* C23: the text a successful emission returns holds no placeholder: each
\* of the eight is substituted and no substituted content leaves one.
ClaimC23_NoPlaceholderLeft ==
    EmissionDone => \A ph \in PLACEHOLDERS : ~str_contains(ph, returned)

\* C24: a run repeated with the same component, level, templates and output
\* path returns the same text as the first and leaves the file at the
\* output path with the same content.
ThmC24_RerunSameOutcome ==
    \A i, j \in 1..Len(history) : history[i] = history[j]

\* Two runs have written a story made from a template to the output path.
WitC24_WrittenTwice ==
    /\ Len(history) = 2
    /\ pc = "done"
    /\ output_path # NoneStr
    /\ EmissionDone
    /\ Len(returned) > 0
    /\ output_file = returned
    /\ history[1].output_file = returned

---------------------------------------------------------------------------
(* scan_components.py: ComponentScanner *)

EXCLUDE_PATTERNS ==
    <<S("node_modules"), S(".git"), S("dist"), S("build"), S("coverage"),
      S(".next"), S(".nuxt"), S(".storybook"), S("__pycache__"),
      S(".pytest_cache"), S("test"), S("tests"), S("__tests__"),
      S("*.test.*"), S("*.spec.*"), S("*.stories.*")>>

COMPONENT_EXTENSIONS ==
    <<S(".tsx"), S(".jsx"), S(".vue"), S(".svelte"), S(".ts"), S(".js")>>

\* Path(p).parts of an absolute path: the root "/" and the names
path_parts(p) ==
    <<S("/")>> \o SelectSeq(str_split(p, "/"), LAMBDA part : part # <<>>)

\* fnmatch.fnmatch(s, pattern) for a pattern of characters, "?" and "*"
RECURSIVE fnmatch(_, _)
fnmatch(s, pattern) ==
    IF pattern = <<>> THEN s = <<>>
    ELSE IF Head(pattern) = "*"
    THEN \E k \in 0..Len(s) : fnmatch(SubSeq(s, k + 1, Len(s)), Tail(pattern))
    ELSE /\ s # <<>>
         /\ Head(pattern) \in {"?", Head(s)}
         /\ fnmatch(Tail(s), Tail(pattern))

\* _should_exclude: a part of the path equals a pattern, or a pattern with
\* a "*" matches the end of the path
should_exclude(file_path, exclude_patterns) ==
    \E i \in 1..Len(exclude_patterns) :
        \/ InList(exclude_patterns[i], path_parts(file_path))
        \/ /\ str_contains(S("*"), exclude_patterns[i])
           /\ fnmatch(file_path, S("*") \o exclude_patterns[i])

\* _is_component_file
is_component_file(file_path) ==
    /\ InList(path_suffix(file_path), COMPONENT_EXTENSIONS)
    /\ \/ path_stem(file_path)[1] \in UpperChars
       \/ str_contains(S("component"), str_lower(file_path))
       \/ str_lower(path_stem(file_path)) = S("index")

\* root_path.rglob(f"*{ext}"): the files whose name ends with ext, in the
\* order of the walk
rglob(tree, ext) ==
    SelectSeq(tree, LAMBDA f : str_endswith(path_name(f.path), ext))

\* The two loops that fill component_files
RECURSIVE collect_component_files(_, _)
collect_component_files(tree, extensions) ==
    IF extensions = <<>> THEN <<>>
    ELSE SelectSeq(rglob(tree, Head(extensions)),
                   LAMBDA f : /\ ~should_exclude(f.path, EXCLUDE_PATTERNS)
                              /\ is_component_file(f.path))
             \o collect_component_files(tree, Tail(extensions))

\* str(file_path.relative_to(root_path))
relative_to(file_path, root) == SubSeq(file_path, Len(root) + 2, Len(file_path))

\* The dict scan builds from a metadata
component_dict(md, rel_path) ==
    [name |-> md.name, file_path |-> rel_path, framework |-> md.framework,
     component_type |-> md.component_type, props_count |-> Len(md.props),
     has_children |-> md.has_children,
     props |-> [i \in 1..Len(md.props) |->
                   [name |-> md.props[i].name, type |-> md.props[i].type,
                    required |-> md.props[i].required]]]

\* The body of the try for one candidate: the inventory after it
components_after(inventory, md, rel_path) ==
    IF md # NoneMetadata THEN Append(inventory, component_dict(md, rel_path))
    ELSE inventory

\* Mutant: a candidate that fails to parse ends the loop.
next_candidate_or_stop(i, n, md) == IF md = NoneMetadata THEN n + 1 ELSE i + 1

\* The loop goes on to the next candidate, whatever the parse gave
next_candidate(i, n, md) == i + 1

---------------------------------------------------------------------------
(* State machine: one run of ComponentScanner.scan *)

ScanRoot == S("/work/app")

ScanFile(rel_path, readable, content) ==
    [path |-> ScanRoot \o S("/") \o S(rel_path), readable |-> readable,
     content |-> S(content)]

\* The files a project may hold: components that parse, one whose parse
\* fails on its name, one that cannot be read, and files the filters drop
ScanFiles ==
    { ScanFile("src/Button.tsx", TRUE, "export default function Button(p: ButtonProps) {}\ninterface ButtonProps {\n  variant: 'primary' | 'secondary';\n  disabled?: boolean;\n}"),
      ScanFile("src/Button(old.tsx", TRUE, "export default {}"),
      ScanFile("src/components/index.vue", TRUE, "<script setup lang=\"ts\">\ndefineProps<{ label: string, count?: number }>()\n</script>\n<template><slot/></template>"),
      ScanFile("src/Card.svelte", FALSE, ""),
      ScanFile("src/Button.test.tsx", TRUE, "export function ButtonTest() {}"),
      ScanFile("src/utils/helper.ts", TRUE, "export function Helper() {}"),
      ScanFile("node_modules/lib/Lib.jsx", TRUE, "export function Lib() {}"),
      ScanFile("README.md", TRUE, "# app") }

MaxScanFiles == 2

\* root_path does not exist
NoDirectory == [exists |-> FALSE, tree |-> <<>>]

\* The directories of at most MaxScanFiles files, the files in the order
\* of the walk
ProjectTrees ==
    {[exists |-> TRUE, tree |-> tree] :
        tree \in {w \in UNION {[1..n -> ScanFiles] : n \in 0..MaxScanFiles} :
                     \A i, j \in 1..Len(w) : w[i] = w[j] => i = j}}

InitScan ==
    /\ project \in ProjectTrees \cup {NoDirectory}
    /\ component_files = <<>>
    /\ components = <<>>
    /\ scan_pc = "collect"
    /\ scan_i = 0
    /\ workers = <<>>
    /\ component_metadata = [props |-> <<>>, component_type |-> "other"]
    /\ called = "none"
    /\ result = <<>>
    /\ NoFile
    /\ NoStory

\* Everything of generate_story but the messages
story_quiet == <<pc, testing_level, output_path, templates, output_file,
                 story_content, returned, given_variants, history>>

\* From the start of scan to the first print: the directory check and the
\* collection of the candidates
Scan_collect ==
    /\ scan_pc = "collect"
    /\ IF ~project.exists
       THEN /\ printed' = Append(printed,
                    Message("stdout", S("Directory not found: ") \o ScanRoot))
            /\ component_files' = component_files
            /\ scan_pc' = "done"
       ELSE /\ component_files' = collect_component_files(project.tree,
                                                          COMPONENT_EXTENSIONS)
            /\ printed' = Append(printed,
                    Message("stdout", S("Found ")
                        \o int_str(Len(component_files'))
                        \o S(" potential component files")))
            /\ scan_pc' = "parse"
    /\ scan_i' = 1
    /\ UNCHANGED <<detector, files, story_quiet, project, components, workers>>

\* One turn of the loop over component_files.  parse_component returns the
\* failure value for every Exception of a parser, so the except branch of
\* the loop is not entered
Scan_parse ==
    /\ scan_pc = "parse"
    /\ scan_i <= Len(component_files)
    /\ parsed' = parse_component(component_files[scan_i].path,
                                 component_files[scan_i].readable,
                                 component_files[scan_i].content)
    /\ components' = components_after(components, parsed',
                         relative_to(component_files[scan_i].path, ScanRoot))
    /\ scan_i' = next_candidate(scan_i, Len(component_files), parsed')
    /\ UNCHANGED <<detector, component_path, component_file, opened, story,
                   project, component_files, scan_pc, workers>>

\* After the loop: the last print and the return of components
Scan_return ==
    /\ scan_pc = "parse"
    /\ scan_i > Len(component_files)
    /\ printed' = Append(printed,
            Message("stdout", S("Successfully parsed ")
                \o int_str(Len(components)) \o S(" components")))
    /\ scan_pc' = "done"
    /\ UNCHANGED <<detector, files, story_quiet, project, component_files,
                   components, scan_i, workers>>

NextScan ==
    \/ Scan_collect
    \/ Scan_parse
    \/ Scan_return

SpecScan == InitScan /\ [][NextScan]_vars

---------------------------------------------------------------------------
(* Claims about the bulk scan *)

\* parse_component gives a metadata for the candidate file
ParsesOk(f) == parse_component(f.path, f.readable, f.content) # NoneMetadata

\* The candidates the loop has gone through
Visited == 1..(IF scan_i - 1 <= Len(component_files)
               THEN scan_i - 1 ELSE Len(component_files))

EntriesOf(f) ==
    {j \in 1..Len(components) :
        components[j].file_path = relative_to(f.path, ScanRoot)}

\* C25: a candidate whose parse fails is skipped and the scan goes on: at
\* every point of the loop the inventory holds exactly one entry for each
\* visited candidate that parsed and none for the others, and the scan ends
\* only after the last candidate.
ThmC25_FailureSkippedScanGoesOn ==
    (scan_pc \in {"parse", "done"} /\ project.exists) =>
        /\ \A i \in Visited :
              Cardinality(EntriesOf(component_files[i]))
                 = IF ParsesOk(component_files[i]) THEN 1 ELSE 0
        /\ Len(components)
              = Cardinality({i \in Visited : ParsesOk(component_files[i])})
        /\ scan_pc = "done" => scan_i = Len(component_files) + 1

\* A finished scan whose first candidate failed to parse and whose later
\* candidate is in the inventory.
WitC25_FailureThenEntry ==
    /\ scan_pc = "done"
    /\ Len(component_files) >= 2
    /\ ~ParsesOk(component_files[1])
    /\ ParsesOk(component_files[2])
    /\ Len(components) >= 1
    /\ components[1].file_path = relative_to(component_files[2].path, ScanRoot)

---------------------------------------------------------------------------
(* State machine: parse_component calls of several workers, interleaved *)

MaxWorkers == 2

\* The files the workers parse: path, whether open() succeeds, the text
WorkerFile(path, readable, content) ==
    [path |-> S(path), readable |-> readable, content |-> S(content)]

WorkerFiles ==
    { WorkerFile("Button.tsx", TRUE, "function Button() {}\ninterface ButtonProps { label: string; }"),
      WorkerFile("Modal.jsx", TRUE, "const Modal = () => null;"),
      WorkerFile("v1.2/Tabs.vue", TRUE, "defineProps<{ label: string }>()"),
      WorkerFile("Card.svelte", TRUE, "export let count = 0;"),
      WorkerFile("Table.tsx", FALSE, ""),
      WorkerFile("README.md", TRUE, "# app") }

\* A call that has not started: its file, no local yet
WorkerCall(file) ==
    [file |-> file, pc |-> "start",
     content |-> [readable |-> FALSE, content |-> <<>>],
     metadata |-> NoneMetadata]

InitWorkers ==
    /\ workers \in {calls \in [1..MaxWorkers -> {WorkerCall(f) : f \in WorkerFiles}] :
                      \A v, w \in 1..MaxWorkers : calls[v].file = calls[w].file => v = w}
    /\ project = NoDirectory
    /\ component_files = <<>>
    /\ components = <<>>
    /\ scan_pc = "idle"
    /\ scan_i = 0
    /\ component_metadata = [props |-> <<>>, component_type |-> "other"]
    /\ called = "none"
    /\ result = <<>>
    /\ NoFile
    /\ NoStory

\* Mutant: every call reads the file of the first call, as through a
\* buffer the calls share.
read_own_file_shared(calls, w) ==
    [readable |-> calls[1].file.readable, content |-> calls[1].file.content]

\* with open(file_path) as f: content = f.read(), in the parser of call w
read_own_file(calls, w) ==
    [readable |-> calls[w].file.readable, content |-> calls[w].file.content]

\* Call w opens and reads its file into its local content
Worker_read(w) ==
    /\ workers[w].pc = "start"
    /\ workers' = [workers EXCEPT ![w].pc = "read",
                                  ![w].content = read_own_file(workers, w)]
    /\ UNCHANGED <<detector, files, story, project, component_files,
                   components, scan_pc, scan_i>>

\* Call w extracts name and props from its local content, builds the
\* metadata and returns it
Worker_return(w) ==
    /\ workers[w].pc = "read"
    /\ workers' = [workers EXCEPT
                      ![w].pc = "done",
                      ![w].metadata = parse_component(workers[w].file.path,
                                          workers[w].content.readable,
                                          workers[w].content.content)]
    /\ UNCHANGED <<detector, files, story, project, component_files,
                   components, scan_pc, scan_i>>

NextWorkers ==
    \E w \in 1..MaxWorkers :
        \/ Worker_read(w)
        \/ Worker_return(w)

SpecWorkers == InitWorkers /\ [][NextWorkers]_vars

\* What the call on a file returns when it runs alone
ParsedAlone(file) == parse_component(file.path, file.readable, file.content)

\* C26: whatever the interleaving of the calls, each call returns the
\* metadata it returns when run alone, and no step of a call changes
\* another call's file, local content or result.
ThmC26_CallsIndependent ==
    \A w \in 1..Len(workers) :
        /\ workers[w].pc = "done" => workers[w].metadata = ParsedAlone(workers[w].file)
        /\ workers[w].pc = "start" => workers[w].metadata = NoneMetadata

\* Two calls on files of different frameworks have both returned their
\* own metadata.
WitC26_BothReturned ==
    /\ Len(workers) = 2
    /\ \A w \in 1..2 : workers[w].pc = "done" /\ workers[w].metadata # NoneMetadata
    /\ workers[1].metadata.framework # workers[2].metadata.framework
    /\ workers[1].metadata.name # workers[2].metadata.name

---------------------------------------------------------------------------
(* Claims about the whole run of generate_story *)

\* generate_story has gone through every stage on a parsed component
StagesDone == pc = "done" /\ parsed # NoneMetadata

IsIdentifier(name) ==
    /\ Len(name) > 0
    /\ \A i \in 1..Len(name) : name[i] \in WordChars
    /\ name[1] \notin Digits

\* A literal that is not an identifier as it stands.
UnsafeLiterals(prop) ==
    {v \in {parse_union_type(prop.type)[i] : i \in 1..Len(parse_union_type(prop.type))} :
        ~IsIdentifier(v)}

\* C28: every variant a detection method returns has a name that is a
\* usable identifier (not empty, letters, digits and underscores only, no
\* leading digit), whatever literals the union types of the props hold.
ThmC28_NamesAreIdentifiers ==
    called # "none" =>
        \A i \in 1..Len(result) : IsIdentifier(result[i].name)

\* detect_variants has run on a prop whose union holds literals that are
\* not identifiers next to one that is, and has returned a variant for it.
WitC28_UnsafeLiteralSkipped ==
    /\ called = "detect_variants"
    /\ \E i \in 1..Len(component_metadata.props) :
          /\ UnsafeLiterals(component_metadata.props[i]) # {}
          /\ enum_variants_of_prop(component_metadata.props[i]) # <<>>
    /\ \E i \in 1..Len(result) : result[i].name = S("Large")

\* C29: the variants detect_variants returns have pairwise distinct names,
\* for every props list and component type, so that no two story exports
\* share an identifier.
ClaimC29_NamesDistinct ==
    called = "detect_variants" =>
        \A i, j \in 1..Len(result) :
            result[i].name = result[j].name => i = j

\* The message printed after the story file was written
WriteMessage == Message("stdout", S("Story generated: ") \o output_path)

\* C30: when parse_component gives None for the component path,
\* generate_story returns None and stops: no variant is detected, no
\* template is rendered, and the file at the output path stays as it was
\* (absent or the earlier file), with or without an output path.
ThmC30_ParseFailureStopsRun ==
    parsed = NoneMetadata =>
        /\ pc \in {"parse", "done"}
        /\ returned = NoneStr
        /\ result = <<>>
        /\ story_content = <<>>
        /\ output_file \in OutputFiles
        /\ (output_path = NoneStr => output_file = NoneStr)
        /\ \A i \in 1..Len(printed) : printed[i] # WriteMessage
        /\ \A i \in 1..Len(history) :
              history[i] = RunOutcome(NoneStr, output_file)

\* A run whose parse failed has ended, with an output path given at which
\* an earlier file exists.
WitC30_FailedWithOutputPath ==
    /\ pc = "done"
    /\ parsed = NoneMetadata
    /\ history # <<>>
    /\ output_path # NoneStr
    /\ output_file = S("// written by hand\n")
    /\ printed # <<>>

====
